---- MODULE Spec2Model ----
(***************************************************************************)
(* Model of the table-of-contents extraction pipeline and of its driver    *)
(* (src/Chinese_version.py).                                               *)
(*                                                                         *)
(* A Python str is a sequence of characters.  ASCII characters stand for   *)
(* themselves; a CJK ideograph is written as its pinyin name ("di" is U+7B2C, *)
(* "zhang" U+7AE0, ...); "(c)" is the copyright sign, "FWCOLON" the full   *)
(* width colon, "FW1"/"FW2" full width digits, "FFFD" the replacement      *)
(* character.  A page text is kept as the sequence of its lines, i.e. as   *)
(* text.split('\n').                                                       *)
(***************************************************************************)
EXTENDS Integers, Sequences, FiniteSets, TLC

\* ------------------------------------------------------------ characters

AsciiDigit == {"0", "1", "2", "3", "4", "5", "6", "7", "8", "9"}

\* Unicode decimal digits outside ASCII that occur in the modelled texts.
FullWidthDigit == {"FW1", "FW2"}

\* The character class [零一二三四五六七八九十].
CnNumeral == {"ling", "yi", "er", "san", "si", "wu", "liu", "qi", "ba", "jiu", "shi"}

\* The other ideographs (U+4E00..U+9FFF) that occur in the modelled texts.
OtherCJK == {"di", "zhang", "jie", "biao", "ti", "ye", "jia",
             "ban", "quan", "qian", "yan", "xu", "zhi", "xie", "fu", "lu",
             "can", "kao", "wen", "xian", "suo", "yin", "mu", "shuo", "ming",
             "xie2", "zi", "hou", "ji", "bai", "wo", "gai", "lun"}

LowerLetters ==
  <<"a", "b", "c", "d", "e", "f", "g", "h", "i", "j", "k", "l", "m",
    "n", "o", "p", "q", "r", "s", "t", "u", "v", "w", "x", "y", "z">>

UpperLetters ==
  <<"A", "B", "C", "D", "E", "F", "G", "H", "I", "J", "K", "L", "M",
    "N", "O", "P", "Q", "R", "S", "T", "U", "V", "W", "X", "Y", "Z">>

Range(f) == {f[i] : i \in DOMAIN f}

LowerSet == Range(LowerLetters)

UpperSet == Range(UpperLetters)

Letter == LowerSet \cup UpperSet

\* str.lower() on one character; also the case folding of re.IGNORECASE.
LowerChar(c) ==
  IF c \in UpperSet
    THEN LowerLetters[CHOOSE i \in DOMAIN UpperLetters : UpperLetters[i] = c]
    ELSE c

\* \d of a str pattern: every Unicode decimal digit.
Digit == AsciiDigit \cup FullWidthDigit

IsDigit(c) == c \in Digit

\* \s
Space == {" "}

IsSpace(c) == c \in Space

\* [一-鿿]
CJK == CnNumeral \cup OtherCJK

IsCJK(c) == c \in CJK

\* \w: letters, digits, underscore and ideographs.
IsWord(c) == c \in Letter \/ IsDigit(c) \/ IsCJK(c) \/ c = "_"

\* [:：.]
MarkPunct == {":", "FWCOLON", "."}

IsMarkPunct(c) == c \in MarkPunct

\* ------------------------------------------------------- string helpers

\* s[i:j] for 1-based i and exclusive 1-based end j.
Slice(s, i, j) == IF j <= i THEN <<>> ELSE SubSeq(s, i, j - 1)

\* The index after the maximal run of characters of the class S that starts at i
\* (a greedy S* at i).
SkipWhile(s, i, S) ==
  LET RECURSIVE From(_)
      From(k) == IF k <= Len(s) /\ s[k] \in S THEN From(k + 1) ELSE k
  IN  From(i)

\* The index of the last character of s that is not white space;
\* 0 when there is none.
LastNonSpace(s) ==
  LET RECURSIVE Back(_)
      Back(k) == IF k >= 1 /\ IsSpace(s[k]) THEN Back(k - 1) ELSE k
  IN  Back(Len(s))

LStrip(s) == Slice(s, SkipWhile(s, 1, Space), Len(s) + 1)

RStrip(s) == SubSeq(s, 1, LastNonSpace(s))

\* str.strip()
Strip(s) == RStrip(LStrip(s))

\* str.lower()
Lower(s) == [i \in DOMAIN s |-> LowerChar(s[i])]

\* The concatenation of seqs[lo], ..., seqs[hi].
Flatten(seqs) ==
  LET RECURSIVE FlattenRange(_, _)
      FlattenRange(lo, hi) ==
        IF lo > hi THEN <<>>
        ELSE IF lo = hi THEN seqs[lo]
        ELSE FlattenRange(lo, (lo + hi) \div 2) \o FlattenRange(((lo + hi) \div 2) + 1, hi)
  IN  FlattenRange(1, Len(seqs))

\* w occurs in s at index i.
MatchAt(s, i, w) ==
  /\ i + Len(w) - 1 <= Len(s)
  /\ \A k \in 1..Len(w) : s[i + k - 1] = w[k]

\* the lower-case word w occurs in s at index i, whatever the case of s.
MatchAtIgnoreCase(s, i, w) ==
  /\ i + Len(w) - 1 <= Len(s)
  /\ \A k \in 1..Len(w) : LowerChar(s[i + k - 1]) = w[k]

\* `w in s`
Contains(s, w) == \E i \in 1..(Len(s) + 1) : MatchAt(s, i, w)

\* ------------------------------------------------- the marker pattern

\* The keyword alternatives of the marker pattern, matched under re.IGNORECASE.
MarkerWords ==
  << <<"c", "h", "a", "p", "t", "e", "r">>,
     <<"s", "e", "c", "t", "i", "o", "n">>,
     <<"p", "a", "r", "t">>,
     <<"v", "o", "l", "u", "m", "e">>,
     <<"u", "n", "i", "t">>,
     <<"m", "o", "d", "u", "l", "e">> >>

\* Each Alt* gives the index after group 1 when the alternative matches at i,
\* and 0 when it does not.

\* 第[零一二三四五六七八九十]+[章节]
AltChinese(s, i) ==
  LET j == SkipWhile(s, i + 1, CnNumeral)
  IN  IF /\ s[i] = "di"
         /\ j > i + 1
         /\ j <= Len(s)
         /\ s[j] \in {"zhang", "jie"}
        THEN j + 1
        ELSE 0

\* Chapter\s*\d+ and the other keywords
AltWord(s, i, w) ==
  LET j == SkipWhile(s, i + Len(w), Space)
      k == SkipWhile(s, j, Digit)
  IN  IF MatchAtIgnoreCase(s, i, w) /\ k > j THEN k ELSE 0

\* \d+\s*[:：.]\s*
AltNumberPunct(s, i) ==
  LET j == SkipWhile(s, i, Digit)
      k == SkipWhile(s, j, Space)
  IN  IF j > i /\ k <= Len(s) /\ IsMarkPunct(s[k])
        THEN SkipWhile(s, k + 1, Space)
        ELSE 0

\* \d+\s+
AltNumberSpace(s, i) ==
  LET j == SkipWhile(s, i, Digit)
      k == SkipWhile(s, j, Space)
  IN  IF j > i /\ k > j THEN k ELSE 0

\* Ordered alternation: the end of the first alternative that matches (its
\* end is not 0), 0 when none does.
FirstMatch(ends) ==
  LET hits == SelectSeq(ends, LAMBDA e : e # 0)
  IN  IF hits = <<>> THEN 0 ELSE Head(hits)

\* The alternation of group 1 at index i: the first alternative, in the order
\* of the pattern, that matches there (the rest of the pattern always matches).
MarkerEnd(s, i) ==
  FirstMatch(<<AltChinese(s, i),
               FirstMatch([w \in DOMAIN MarkerWords |-> AltWord(s, i, MarkerWords[w])]),
               AltNumberPunct(s, i),
               AltNumberSpace(s, i)>>)

\* pattern.search(line): the leftmost index where the pattern matches, 0 for
\* no match.
MarkerSearch(s) ==
  LET RECURSIVE From(_)
      From(i) ==
        IF i > Len(s) THEN 0
        ELSE IF MarkerEnd(s, i) # 0 THEN i
        ELSE From(i + 1)
  IN  From(1)

\* m.group(1) of a match at i
MarkerGroup1(s, i) == Slice(s, i, MarkerEnd(s, i))

\* [:：]? at index a: the index after it
SkipColon(s, a) == IF a <= Len(s) /\ s[a] \in {":", "FWCOLON"} THEN a + 1 ELSE a

\* m.group(2) of a match at i: what follows \s*[:：]?\s*
MarkerGroup2(s, i) ==
  Slice(s, SkipWhile(s, SkipColon(s, SkipWhile(s, MarkerEnd(s, i), Space)), Space), Len(s) + 1)

\* ------------------------------------------------------ the exclusions

\* re.search(r'©\d{4}\s*\w+', line)
ExcludeCopyright(s) ==
  \E i \in 1..Len(s) :
    /\ s[i] = "(c)"
    /\ i + 4 <= Len(s)
    /\ \A k \in 1..4 : IsDigit(s[i + k])
    /\ LET j == SkipWhile(s, i + 5, Space)
       IN  j <= Len(s) /\ IsWord(s[j])

\* re.search(r'\d+\s*页', line)
ExcludePageMark(s) ==
  \E i \in 1..Len(s) :
    /\ IsDigit(s[i])
    /\ LET j == SkipWhile(s, SkipWhile(s, i, Digit), Space)
       IN  j <= Len(s) /\ s[j] = "ye"

\* re.search(r'^\d+$', line)
ExcludePureNumber(s) == s # <<>> /\ \A i \in 1..Len(s) : IsDigit(s[i])

\* re.search(r'^\d+\s*[^\w\s]+$', line)
ExcludeNumberPunct(s) ==
  LET j == SkipWhile(s, 1, Digit)
      k == SkipWhile(s, j, Space)
  IN  /\ j > 1
      /\ k <= Len(s)
      /\ \A i \in k..Len(s) : ~IsWord(s[i]) /\ ~IsSpace(s[i])

\* exclude_patterns without the copyright stamp pattern.
exclude_patterns_no_stamp(s) ==
  \/ ExcludePageMark(s)
  \/ ExcludePureNumber(s)
  \/ ExcludeNumberPunct(s)

exclude_patterns(s) ==
  \/ ExcludeCopyright(s)
  \/ ExcludePageMark(s)
  \/ ExcludePureNumber(s)
  \/ ExcludeNumberPunct(s)

exclude_keywords == { <<"a", "p", "p", "e", "n", "d", "i", "c", "e", "s">> }

\* ----------------------------------------------------------- extraction

\* if title: directory_tuples.append((raw_prefix, title, idx))
EntryOf(raw_prefix, title, idx) ==
  IF title # <<>>
    THEN << [raw_prefix |-> raw_prefix, title |-> title, order |-> idx] >>
    ELSE <<>>

\* The entry of a match at m of the stripped line, if its title is not empty.
MatchEntries(line, m, idx) ==
  IF m = 0 THEN <<>>
  ELSE EntryOf(Strip(MarkerGroup1(line, m)), Strip(MarkerGroup2(line, m)), idx)

\* StrippedLineEntries with `keyword in line`, the case of the line kept.
StrippedLineEntriesCased(line, idx) ==
  IF line = <<>> THEN <<>>
  ELSE IF exclude_patterns(line) THEN <<>>
  ELSE IF \E kw \in exclude_keywords : Contains(line, kw) THEN <<>>
  ELSE MatchEntries(line, MarkerSearch(line), idx)

\* The entries of the stripped line: none for an empty or an excluded line.
StrippedLineEntries(line, idx) ==
  IF line = <<>> THEN <<>>
  ELSE IF exclude_patterns(line) THEN <<>>
  ELSE IF \E kw \in exclude_keywords :
            \E i \in 1..Len(line) : MatchAtIgnoreCase(line, i, Lower(kw)) THEN <<>>
  ELSE MatchEntries(line, MarkerSearch(line), idx)

\* The entry of one line (idx is its zero-based index in text.split('\n')),
\* as a sequence of zero or one entries.
LineEntries(rawline, idx) == StrippedLineEntries(Strip(rawline), idx)

\* An extraction that counts the lines from one.
extract_from_one(text) ==
  Flatten([k \in DOMAIN text |-> LineEntries(text[k], k)])

\* text is text.split('\n'); enumerate() counts every line.
extract_directory_tuples_from_text(text) ==
  Flatten([k \in DOMAIN text |-> LineEntries(text[k], k - 1)])

\* --------------------------------------------------- numeral handling

CnDigits == <<"ling", "yi", "er", "san", "si", "wu", "liu", "qi", "ba", "jiu">>

\* The dict `mapping` of chinese_to_int, and mapping.get(key, default) for a
\* key that is a str.
mapping(c) == (CHOOSE i \in DOMAIN CnDigits : CnDigits[i] = c) - 1

MappingGet(key, default) ==
  IF Len(key) = 1 /\ key[1] \in Range(CnDigits) THEN mapping(key[1]) ELSE default

\* The index of the first "shi" in s, 0 when there is none.
FirstShi(s) ==
  IF \E i \in DOMAIN s : s[i] = "shi"
    THEN CHOOSE i \in DOMAIN s : s[i] = "shi" /\ \A k \in 1..(i - 1) : s[k] # "shi"
    ELSE 0

\* chinese_str.split("十")[0] and [1]
SplitPart0(s) == SubSeq(s, 1, FirstShi(s) - 1)

SplitPart1(s) ==
  LET rest == SubSeq(s, FirstShi(s) + 1, Len(s))
  IN  IF FirstShi(rest) = 0 THEN rest ELSE SubSeq(rest, 1, FirstShi(rest) - 1)

\* A chinese_to_int that drops what follows a leading "shi".
chinese_to_int_leading_ten(chinese_str) ==
  LET RECURSIVE ToInt(_)
      ToInt(str) ==
        IF str # <<>> /\ Head(str) = "shi" THEN [raised |-> FALSE, value |-> 10]
        ELSE IF FirstShi(str) # 0
          THEN LET tens == MappingGet(SplitPart0(str), 1)
                   ones == IF SplitPart1(str) # <<>>
                             THEN ToInt(SplitPart1(str))
                             ELSE [raised |-> FALSE, value |-> 0]
               IN  [raised |-> ones.raised, value |-> tens * 10 + ones.value]
        ELSE IF str = <<>> THEN [raised |-> TRUE, value |-> 0]
        ELSE [raised |-> FALSE, value |-> MappingGet(<<str[1]>>, 0)]
  IN  ToInt(chinese_str)

\* chinese_to_int: [raised |-> an IndexError was raised, value |-> the int returned]
chinese_to_int(chinese_str) ==
  LET RECURSIVE ToInt(_)
      ToInt(str) ==
        IF str = <<"shi">> THEN [raised |-> FALSE, value |-> 10]
        ELSE IF str # <<>> /\ Head(str) = "shi"
          THEN LET r == ToInt(Tail(str))
               IN  [raised |-> r.raised, value |-> 10 + r.value]
        ELSE IF FirstShi(str) # 0
          THEN LET tens == MappingGet(SplitPart0(str), 1)
                   ones == IF SplitPart1(str) # <<>>
                             THEN ToInt(SplitPart1(str))
                             ELSE [raised |-> FALSE, value |-> 0]
               IN  [raised |-> ones.raised, value |-> tens * 10 + ones.value]
        ELSE IF str = <<>> THEN [raised |-> TRUE, value |-> 0]
        ELSE [raised |-> FALSE, value |-> MappingGet(<<str[1]>>, 0)]
  IN  ToInt(chinese_str)

\* int() of one decimal digit character
DigitValue(c) ==
  CASE c = "0" -> 0 [] c = "1" -> 1 [] c = "2" -> 2 [] c = "3" -> 3 [] c = "4" -> 4
    [] c = "5" -> 5 [] c = "6" -> 6 [] c = "7" -> 7 [] c = "8" -> 8 [] c = "9" -> 9
    [] c = "FW1" -> 1 [] c = "FW2" -> 2

\* int(m.group()) for a run of decimal digits
IntOfDigits(ds) ==
  LET RECURSIVE Upto(_)
      Upto(k) == IF k = 0 THEN 0 ELSE 10 * Upto(k - 1) + DigitValue(ds[k])
  IN  Upto(Len(ds))

\* The first maximal run of characters of the class S in s (re.search of S+),
\* <<>> when there is none.
FirstRun(s, S) ==
  IF \E i \in DOMAIN s : s[i] \in S
    THEN LET i == CHOOSE x \in DOMAIN s : s[x] \in S /\ \A k \in 1..(x - 1) : s[k] \notin S
         IN  Slice(s, i, SkipWhile(s, i, S))
    ELSE <<>>

\* parse_chapter_number: [none |-> None was returned, value |-> the int returned]
parse_chapter_number(prefix) ==
  IF FirstRun(prefix, Digit) # <<>>
    THEN [none |-> FALSE, value |-> IntOfDigits(FirstRun(prefix, Digit))]
  ELSE IF FirstRun(prefix, CnNumeral) # <<>>
    THEN LET r == chinese_to_int(FirstRun(prefix, CnNumeral))
         IN  [none |-> r.raised, value |-> r.value]
  ELSE [none |-> TRUE, value |-> 0]

\* The character class [0-9零一二三四五六七八九十] of normalize_prefix.
NormClass == AsciiDigit \cup CnNumeral

NormalizeEachChar(prefix) ==
  [i \in DOMAIN prefix |-> IF prefix[i] \in NormClass THEN "#" ELSE prefix[i]]

\* re.sub(r'[0-9零一二三四五六七八九十]+', '#', prefix)
normalize_prefix(prefix) ==
  LET RECURSIVE From(_)
      From(i) ==
        IF i > Len(prefix) THEN <<>>
        ELSE IF prefix[i] \in NormClass
          THEN <<"#">> \o From(SkipWhile(prefix, i, NormClass))
        ELSE <<prefix[i]>> \o From(i + 1)
  IN  From(1)

\* --------------------------------------------------------- the filter

REPLACEMENT == "FFFD"

MinTitleLen == 3

\* An is_valid_directory_item that wants more than 30% of ideographs.
is_valid_directory_item_above(title) ==
  LET t       == Strip(title)
      chinese == Cardinality({i \in DOMAIN t : IsCJK(t[i])})
  IN  /\ ~Contains(title, <<REPLACEMENT>>)
      /\ Len(t) >= MinTitleLen
      /\ ~(Len(t) > 0 /\ 10 * chinese <= 3 * Len(t))

\* is_valid_directory_item; len(chinese_chars) / len(title) < 0.3 is decided
\* exactly as 10 * chinese < 3 * len.
is_valid_directory_item(title) ==
  LET t       == Strip(title)
      chinese == Cardinality({i \in DOMAIN t : IsCJK(t[i])})
  IN  /\ ~Contains(title, <<REPLACEMENT>>)
      /\ Len(t) >= MinTitleLen
      /\ ~(Len(t) > 0 /\ 10 * chinese < 3 * Len(t))

exclude_words ==
  { <<"ban", "quan">>, <<"qian", "yan">>, <<"xu", "yan">>, <<"zhi", "xie">>,
    <<"fu", "lu">>, <<"can", "kao", "wen", "xian">>, <<"suo", "yin">>,
    <<"mu", "lu">>, <<"shuo", "ming">>, <<"xu", "zhang">>, <<"xie2", "zi">>,
    <<"hou", "ji">> }

is_relevant_directory_item(title) == \A word \in exclude_words : ~Contains(title, word)

\* A filter_entries that already removes the digits of the titles it keeps.
filter_entries_cleaning(entries) ==
  LET kept == SelectSeq(entries,
                        LAMBDA e : /\ is_valid_directory_item(e.title)
                                   /\ is_relevant_directory_item(e.title))
  IN  [i \in DOMAIN kept |->
         [raw_prefix |-> kept[i].raw_prefix,
          title |-> SelectSeq(kept[i].title, LAMBDA c : ~IsDigit(c)),
          order |-> kept[i].order]]

\* A filter_entries that keeps an entry passing either test.
filter_entries_either(entries) ==
  SelectSeq(entries,
            LAMBDA e : is_valid_directory_item(e.title) \/ is_relevant_directory_item(e.title))

filter_entries(entries) ==
  SelectSeq(entries,
            LAMBDA e : is_valid_directory_item(e.title) /\ is_relevant_directory_item(e.title))

\* ------------------------------------------- classification, selection

\* The entries of `entries` whose normalized prefix equals (same = TRUE) or
\* differs from (same = FALSE) primary_norm, in order.
LevelOf(entries, primary_norm, same) ==
  SelectSeq(entries, LAMBDA e : (normalize_prefix(e.raw_prefix) = primary_norm) = same)

\* classify_directory_entries: [first_level, second_level]
classify_directory_entries(entries) ==
  IF entries = <<>> THEN [first_level |-> <<>>, second_level |-> <<>>]
  ELSE LET primary_norm == normalize_prefix(entries[1].raw_prefix)
       IN  [first_level  |-> LevelOf(entries, primary_norm, TRUE),
            second_level |-> LevelOf(entries, primary_norm, FALSE)]

MinEntries == 30

\* select_directory returning the first level whenever it has an entry.
select_directory_any(entries) ==
  LET c == classify_directory_entries(entries)
  IN  IF Len(c.first_level) >= 1
        THEN [entries |-> c.first_level, level |-> 1]
      ELSE IF Len(c.second_level) >= MinEntries
        THEN [entries |-> c.second_level, level |-> 2]
      ELSE [entries |-> <<>>, level |-> 0]

\* select_directory returning the larger level instead of preferring the first.
select_directory_larger(entries) ==
  LET c == classify_directory_entries(entries)
  IN  IF Len(c.first_level) >= MinEntries /\ Len(c.first_level) >= Len(c.second_level)
        THEN [entries |-> c.first_level, level |-> 1]
      ELSE IF Len(c.second_level) >= MinEntries
        THEN [entries |-> c.second_level, level |-> 2]
      ELSE [entries |-> <<>>, level |-> 0]

\* select_directory: (None, None) is [entries |-> <<>>, level |-> 0]
select_directory(entries) ==
  LET c == classify_directory_entries(entries)
  IN  IF Len(c.first_level) >= MinEntries
        THEN [entries |-> c.first_level, level |-> 1]
      ELSE IF Len(c.second_level) >= MinEntries
        THEN [entries |-> c.second_level, level |-> 2]
      ELSE [entries |-> <<>>, level |-> 0]

\* ------------------------------------------------- sorting and cleaning

\* sorted(entries, key=...) for the keys given beside the entries: ascending
\* by key, and stable (equal keys stay in their order in `entries`).
SortedByKeys(entries, keys) ==
  LET tagged == [i \in DOMAIN entries |-> [key |-> keys[i], at |-> i]]
      sorted == SortSeq(tagged, LAMBDA x, y : x.key < y.key \/ (x.key = y.key /\ x.at < y.at))
  IN  [i \in DOMAIN entries |-> entries[sorted[i].at]]

\* sorted(entries, key=...) with the parsed chapter number as the key.
sort_by_chapter_number(entries) ==
  SortedByKeys(entries,
               [i \in DOMAIN entries |-> parse_chapter_number(entries[i].raw_prefix).value])

\* sorted(entries, key=lambda x: x[2])
sort_directory_entries(entries) ==
  SortedByKeys(entries, [i \in DOMAIN entries |-> entries[i].order])

\* [title for (_, title, _) in sorted_entries]
TitlesOf(entries) == [i \in DOMAIN entries |-> entries[i].title]

\* re.sub(r'\d+', '', t)
RemoveDigits(t) == SelectSeq(t, LAMBDA c : ~IsDigit(c))

\* final_sort_titles that trims each title before it removes the digits.
final_sort_titles_trim_first(titles) == [i \in DOMAIN titles |-> RemoveDigits(Strip(titles[i]))]

\* final_sort_titles that also drops a title equal to an earlier one.
final_sort_titles_dedup(titles) ==
  LET cleaned == [i \in DOMAIN titles |-> Strip(RemoveDigits(titles[i]))]
  IN  SelectSeq([i \in DOMAIN cleaned |->
                   IF \E k \in 1..(i - 1) : cleaned[k] = cleaned[i] THEN <<"FFFD">> ELSE cleaned[i]],
                LAMBDA t : t # <<"FFFD">>)

final_sort_titles(titles) == [i \in DOMAIN titles |-> Strip(RemoveDigits(titles[i]))]

\* ------------------------------------------------------ the book titles

\* "LQ" and "RQ" are the title marks U+300A and U+300B.
\* [一-龥]: the ideographs of the modelled texts are all in it.
HanName == CJK

\* [^《》]+ at i: the index after the run; i when there is none.
SkipTitle(s, i) ==
  LET RECURSIVE From(_)
      From(k) == IF k <= Len(s) /\ s[k] \notin {"LQ", "RQ"} THEN From(k + 1) ELSE k
  IN  From(i)

\* A match of the pattern: the index after it (0 for no match) and its
\* groups 2 and 3, the title after a name and the title before a name.
NoBookMatch == [end |-> 0, after_name |-> <<>>, before_name |-> <<>>]

\* ([一-龥]{2,4})《([^《》]+)》 at i, with the name ending at q and the
\* title at j.
NameThenTitle(s, i, q, j) ==
  IF /\ q - i \in 2..4
     /\ q <= Len(s)
     /\ s[q] = "LQ"
     /\ j > q + 1
     /\ j <= Len(s)
     /\ s[j] = "RQ"
    THEN [end |-> j + 1, after_name |-> Slice(s, q + 1, j), before_name |-> <<>>]
    ELSE NoBookMatch

\* 《([^《》]+)》([一-龥]{2,4}) at i, with the title ending at j and the
\* run of ideographs after it at r.
TitleThenName(s, i, j, r) ==
  IF /\ s[i] = "LQ"
     /\ j > i + 1
     /\ j <= Len(s)
     /\ s[j] = "RQ"
     /\ r - (j + 1) >= 2
    THEN [end |-> IF r - (j + 1) > 4 THEN j + 5 ELSE r,
          after_name |-> <<>>, before_name |-> Slice(s, i + 1, j)]
    ELSE NoBookMatch

\* The first alternative that matches at i.
FirstBookMatch(first, second) == IF first.end # 0 THEN first ELSE second

BookMatchAt(s, i) ==
  FirstBookMatch(
    NameThenTitle(s, i, SkipWhile(s, i, HanName), SkipTitle(s, SkipWhile(s, i, HanName) + 1)),
    TitleThenName(s, i, SkipTitle(s, i + 1), SkipWhile(s, SkipTitle(s, i + 1) + 1, HanName)))

\* re.findall(pattern, text): the matches from left to right, none
\* overlapping another.
BookFindAll(s) ==
  LET RECURSIVE From(_)
      From(i) ==
        IF i > Len(s) THEN <<>>
        ELSE IF BookMatchAt(s, i).end # 0
          THEN <<BookMatchAt(s, i)>> \o From(BookMatchAt(s, i).end)
        ELSE From(i + 1)
  IN  From(1)

\* title = match[1].strip() if match[1], else match[2].strip()
BookTitleOf(m) == IF m.after_name # <<>> THEN Strip(m.after_name) ELSE Strip(m.before_name)

\* The set book_titles after the loop over the matches (lines 270-280).
BookTitleSet(matches, max_titles) ==
  LET RECURSIVE Loop(_, _)
      Loop(k, book_titles) ==
        IF k > Len(matches) \/ Cardinality(book_titles) >= max_titles THEN book_titles
        ELSE IF BookTitleOf(matches[k]) # <<>>
          THEN Loop(k + 1, book_titles \cup {BookTitleOf(matches[k])})
        ELSE Loop(k + 1, book_titles)
  IN  Loop(1, {})

\* list(book_titles): the elements of the set in the order the hash table
\* gives, which differs from run to run.
ListsOfSet(S) ==
  { f \in [1..Cardinality(S) -> S] : \A a, b \in 1..Cardinality(S) : f[a] = f[b] => a = b }

\* The values extract_book_titles_with_authors can return:
\* list(book_titles)[:max_titles]
extract_book_titles_with_authors(text, max_titles) ==
  { SubSeq(l, 1, IF Len(l) < max_titles THEN Len(l) ELSE max_titles) :
      l \in ListsOfSet(BookTitleSet(BookFindAll(text), max_titles)) }

\* ------------------------------------------------- the material file

(***************************************************************************)
(* auto_correct_json (src/create_material.py) on the subsections of one    *)
(* section.  An element of the list is [dict, value, keys]: whether it is  *)
(* a dict, the value of an element that is none, the keys of one that is.  *)
(***************************************************************************)
mandatory_keys == {"subsection_number", "subsection_title", "content", "quiz"}

\* lst.remove(x): lst without its first element equal to x.
ListRemove(lst, x) ==
  LET at == CHOOSE k \in DOMAIN lst : lst[k] = x /\ \A m \in 1..(k - 1) : lst[m] # x
  IN  SubSeq(lst, 1, at - 1) \o SubSeq(lst, at + 1, Len(lst))

\* The keys of a subsection after lines 156-168: "title" is renamed, the
\* missing mandatory keys are added.
FixedKeys(keys) ==
  ((keys \ {"title"}) \cup (IF "title" \in keys THEN {"subsection_title"} ELSE {}))
    \cup mandatory_keys

\* for subsection in subsections (lines 150-168): the list iterator takes
\* the element at its index and moves on by one, while remove() shortens the
\* list under it.
CorrectSubsections(subsections) ==
  LET RECURSIVE Loop(_, _)
      Loop(lst, i) ==
        IF i > Len(lst) THEN lst
        ELSE IF ~lst[i].dict THEN Loop(ListRemove(lst, lst[i]), i + 1)
        ELSE Loop([lst EXCEPT ![i].keys = FixedKeys(lst[i].keys)], i + 1)
  IN  Loop(subsections, 1)

\* ------------------------------------------------------------- JSON

(***************************************************************************)
(* json.loads on the characters { } [ ] , : space, the double quote "Q",   *)
(* digits and letters: objects, arrays, strings without escapes and        *)
(* unsigned integers.  A parse gives [ok, value, next]: whether a value    *)
(* starts at the index, the value, and the index after it.  A parsed value *)
(* is kept as its canonical text, the document without its insignificant   *)
(* white space.                                                            *)
(***************************************************************************)
JsonFail == [ok |-> FALSE, value |-> <<>>, next |-> 0]

\* The index of the first c in s at or after i, 0 when there is none (s.find).
FindFrom(s, i, c) ==
  IF \E k \in i..Len(s) : s[k] = c
    THEN CHOOSE k \in i..Len(s) : s[k] = c /\ \A m \in i..(k - 1) : s[m] # c
    ELSE 0

\* The index of the last c in s, 0 when there is none (s.rfind).
FindLast(s, c) ==
  IF \E k \in DOMAIN s : s[k] = c
    THEN CHOOSE k \in DOMAIN s : s[k] = c /\ \A m \in (k + 1)..Len(s) : s[m] # c
    ELSE 0

\* A string literal at i.
ParseString(s, i) ==
  LET j == FindFrom(s, i + 1, "Q")
  IN  IF i <= Len(s) /\ s[i] = "Q" /\ j # 0
        THEN [ok |-> TRUE, value |-> SubSeq(s, i, j), next |-> j + 1]
        ELSE JsonFail

\* A number at i: 0|[1-9][0-9]*
ParseNumber(s, i) ==
  LET j == IF s[i] = "0" THEN i + 1 ELSE SkipWhile(s, i, AsciiDigit)
  IN  [ok |-> TRUE, value |-> Slice(s, i, j), next |-> j]

\* A value at i (no white space before it).  Parse("members", at) parses the
\* members of an object from at (after the brace or a comma) to the closing
\* brace, Parse("elements", at) the elements of an array to the closing
\* bracket, Parse("value", at) a value.
ParseValue(s, i) ==
  LET RECURSIVE Parse(_, _)
      Parse(what, at) ==
        IF what = "members"
          THEN LET k     == ParseString(s, at)
                   colon == SkipWhile(s, k.next, Space)
                   v     == Parse("value", SkipWhile(s, colon + 1, Space))
                   sep   == SkipWhile(s, v.next, Space)
                   rest  == Parse("members", SkipWhile(s, sep + 1, Space))
               IN  IF ~k.ok \/ colon > Len(s) \/ s[colon] # ":" THEN JsonFail
                   ELSE IF ~v.ok \/ sep > Len(s) THEN JsonFail
                   ELSE IF s[sep] = "}"
                     THEN [ok |-> TRUE,
                           value |-> k.value \o <<":">> \o v.value \o <<"}">>,
                           next |-> sep + 1]
                   ELSE IF s[sep] = "," /\ rest.ok
                     THEN [ok |-> TRUE,
                           value |-> k.value \o <<":">> \o v.value \o <<",">> \o rest.value,
                           next |-> rest.next]
                   ELSE JsonFail
        ELSE IF what = "elements"
          THEN LET v    == Parse("value", at)
                   sep  == SkipWhile(s, v.next, Space)
                   rest == Parse("elements", SkipWhile(s, sep + 1, Space))
               IN  IF ~v.ok \/ sep > Len(s) THEN JsonFail
                   ELSE IF s[sep] = "]"
                     THEN [ok |-> TRUE, value |-> v.value \o <<"]">>, next |-> sep + 1]
                   ELSE IF s[sep] = "," /\ rest.ok
                     THEN [ok |-> TRUE, value |-> v.value \o <<",">> \o rest.value,
                           next |-> rest.next]
                   ELSE JsonFail
        ELSE IF at > Len(s) THEN JsonFail
        ELSE IF s[at] = "Q" THEN ParseString(s, at)
        ELSE IF s[at] \in AsciiDigit THEN ParseNumber(s, at)
        ELSE IF s[at] \in {"{", "["}
          THEN LET close == IF s[at] = "{" THEN "}" ELSE "]"
                   j == SkipWhile(s, at + 1, Space)
                   m == Parse(IF s[at] = "{" THEN "members" ELSE "elements", j)
               IN  IF j <= Len(s) /\ s[j] = close
                     THEN [ok |-> TRUE, value |-> <<s[at], close>>, next |-> j + 1]
                   ELSE IF m.ok
                     THEN [ok |-> TRUE, value |-> <<s[at]>> \o m.value, next |-> m.next]
                   ELSE JsonFail
        ELSE JsonFail
  IN  Parse("value", i)

\* json.loads(raw): ok = FALSE is json.JSONDecodeError.
\* The value v parsed at the start of raw is the whole document.
WholeDocument(raw, v) ==
  IF v.ok /\ SkipWhile(raw, v.next, Space) = Len(raw) + 1
    THEN [ok |-> TRUE, value |-> v.value]
    ELSE [ok |-> FALSE, value |-> <<>>]

json_loads(raw) == WholeDocument(raw, ParseValue(raw, SkipWhile(raw, 1, Space)))

\* The except branch with the slice raw_content[start_index:end_index].
ExtractObjectShort(raw_content, start_index, end_index) ==
  IF start_index # 0 /\ end_index # 0 /\ end_index > start_index
    THEN json_loads(SubSeq(raw_content, start_index, end_index - 1))
    ELSE [ok |-> FALSE, value |-> <<>>]

\* The except branch of fix_json_content (lines 312-325): ok = FALSE is the
\* ValueError it raises.
ExtractObject(raw_content, start_index, end_index) ==
  IF start_index # 0 /\ end_index # 0 /\ end_index > start_index
    THEN json_loads(SubSeq(raw_content, start_index, end_index))
    ELSE [ok |-> FALSE, value |-> <<>>]

\* try: return json.loads(raw_content); except json.JSONDecodeError: ...
FirstLoaded(whole, extracted) == IF whole.ok THEN whole ELSE extracted

\* A fix_json_content that returns the text as it is when nothing parses.
fix_json_content_lenient(raw_content) ==
  IF json_loads(raw_content).ok THEN json_loads(raw_content)
  ELSE [ok |-> TRUE, value |-> raw_content]

\* fix_json_content: [ok |-> FALSE] is the ValueError it raises.
fix_json_content(raw_content) ==
  FirstLoaded(json_loads(raw_content),
              ExtractObject(raw_content, FindFrom(raw_content, 1, "{"),
                            FindLast(raw_content, "}")))

\* One pass of main over a page text (lines 413-430, then 478):
\* [ok |-> an outline was obtained, level, titles |-> the FinalOutline].
NoOutline == [ok |-> FALSE, level |-> 0, titles |-> <<>>]

OutlineOfSelection(sel) ==
  LET titles == TitlesOf(sort_directory_entries(sel.entries))
  IN  IF sel.entries = <<>> THEN NoOutline
      ELSE IF Len(titles) >= MinEntries
        THEN [ok |-> TRUE, level |-> sel.level, titles |-> final_sort_titles(titles)]
      ELSE NoOutline

OutlineOfFiltered(filtered) ==
  IF filtered = <<>> THEN NoOutline ELSE OutlineOfSelection(select_directory(filtered))

OutlineOfExtracted(extracted) ==
  IF extracted = <<>> THEN NoOutline ELSE OutlineOfFiltered(filter_entries(extracted))

OutlineOf(txt) == OutlineOfExtracted(extract_directory_tuples_from_text(txt))

\* ------------------------------------------------------ the page texts

(***************************************************************************)
(* The page texts the pipeline is run on.  A page is described by two      *)
(* streams of numbered lines, a layout that places them on the page, and   *)
(* the noise lines inserted between them.                                  *)
(***************************************************************************)

\* How far above the threshold of MinEntries the longest stream goes.
MaxExtra == 5

\* Noise lines are inserted before every line, every 2nd line, ... up to
\* every MaxGap-th line.
MaxGap == 2

\* The Chinese numeral of n in 1..99.
CnNum(n) ==
  IF n < 10 THEN <<CnDigits[n + 1]>>
  ELSE (IF n \div 10 = 1 THEN <<>> ELSE <<CnDigits[(n \div 10) + 1]>>)
       \o <<"shi">>
       \o (IF n % 10 = 0 THEN <<>> ELSE <<CnDigits[(n % 10) + 1]>>)

AsciiDigits == <<"0", "1", "2", "3", "4", "5", "6", "7", "8", "9">>

\* The decimal digits of n in 0..99.
DecNum(n) ==
  IF n < 10 THEN <<AsciiDigits[n + 1]>>
  ELSE <<AsciiDigits[(n \div 10) + 1], AsciiDigits[(n % 10) + 1]>>

\* A line of a kind with chapter number n.
Line(kind, n) ==
  CASE kind = "cn"   -> <<"di">> \o CnNum(n) \o <<"zhang", " ", "biao", "ti">> \o CnNum(n)
    [] kind = "cnd"  -> <<"di">> \o CnNum(n) \o <<"zhang", " ", "biao", "ti">> \o DecNum(n)
    [] kind = "ar"   -> <<"di">> \o DecNum(n) \o <<"zhang", " ", "biao", "ti">> \o DecNum(n)
    [] kind = "chap" -> <<"C", "h", "a", "p", "t", "e", "r", " ">> \o DecNum(n)
                          \o <<":", " ", "biao", "ti">> \o CnNum(n)
    [] kind = "sec"  -> DecNum(n) \o <<".", " ", "ti", "jia">> \o CnNum(n)
    [] kind = "jie"  -> <<" ", "di">> \o CnNum(n) \o <<"jie", "FWCOLON", "ti", "biao">>
                          \o CnNum(n) \o <<" ">>
    [] kind = "fw"   -> <<IF n % 2 = 1 THEN "FW1" ELSE "FW2">> \o <<" ", "ti", "jia">> \o CnNum(n)
    [] kind = "app"  -> <<"di">> \o CnNum(n) \o <<"zhang", " ", "fu", "lu">> \o CnNum(n)
    [] kind = "bad"  -> <<"di">> \o CnNum(n) \o <<"zhang", " ", "a", "b">>

\* A noise line: a pure page number, a copyright stamp, a blank line, a line
\* of white space.
NoiseLine(kind, n) ==
  CASE kind = "num"   -> DecNum(n)
    [] kind = "stamp" -> <<"(c)", "2", "0", "2", "4", " ", "biao", "ti", "jia">>
    [] kind = "blank" -> <<>>
    [] kind = "ws"    -> <<" ", " ">>

\* The lines of a stream: count lines of a kind, numbered 1..count upwards
\* ("asc") or downwards ("desc").
Stream(st) ==
  [i \in 1..st.count |-> Line(st.kind, IF st.order = "asc" THEN i ELSE st.count + 1 - i)]

\* The two streams one after the other ("AB", "BA") or alternating ("alt").
Alternate(a, b) ==
  LET n == IF Len(a) > Len(b) THEN Len(a) ELSE Len(b)
  IN  Flatten([i \in 1..n |-> (IF i <= Len(a) THEN <<a[i]>> ELSE <<>>)
                               \o (IF i <= Len(b) THEN <<b[i]>> ELSE <<>>)])

Layout(layout, a, b) ==
  CASE layout = "AB"  -> a \o b
    [] layout = "BA"  -> b \o a
    [] layout = "alt" -> Alternate(a, b)

\* lines with a noise line before every gap-th line, from the first one, and
\* a last one at the end of the page (gap = 0: no noise).
WithNoise(lines, kind, gap) ==
  IF gap = 0 THEN lines
  ELSE Flatten([i \in DOMAIN lines |->
                  (IF (i - 1) % gap = 0 THEN <<NoiseLine(kind, i)>> ELSE <<>>)
                  \o <<lines[i]>>])
       \o <<NoiseLine(kind, Len(lines) + 1)>>

\* The page without its noise lines, and the page.
CleanText(pg) == Layout(pg.layout, Stream(pg.a), Stream(pg.b))

PageText(pg) == WithNoise(CleanText(pg), pg.noise, pg.gap)

CountsA == {1, MinEntries - 5, MinEntries - 1, MinEntries, MinEntries + MaxExtra}

CountsB == {0, MinEntries - 1, MinEntries + 2}

StreamsA ==
  [kind : {"cn", "cnd", "ar", "chap"}, count : CountsA, order : {"asc", "desc"}]

StreamsB == [kind : {"sec", "jie", "fw", "app", "bad"}, count : CountsB, order : {"asc"}]

\* Every pair of streams in every layout without noise; noise lines of every
\* kind and gap on the pages whose first stream is numbered upwards and whose
\* second stream is empty or the long stream of "sec" lines.
Pages ==
  { pg \in [a : StreamsA, b : StreamsB, layout : {"AB", "BA", "alt"},
            noise : {"num", "stamp", "blank", "ws"}, gap : 0..MaxGap] :
      /\ pg.gap = 0 => pg.noise = "blank"
      /\ pg.b.count = 0 => pg.layout = "AB" /\ pg.b.kind = "sec"
      /\ pg.gap # 0 => /\ pg.a.order = "asc"
                       /\ pg.b.kind = "sec"
                       /\ pg.b.count # MinEntries - 1 }

\* ------------------------------------------------------------ the state

VARIABLES
  \* one pass of the pipeline over a page text (main, lines 413-430 and 478)
  page,            \* the description of the page the text was built from
  page_text,       \* the text of the page, as text.split('\n')
  stage,           \* how far the pass has come
  page_entries,    \* entries: extract_directory_tuples_from_text(text), then filter_entries of it
  first_level,     \* select_directory's first_level
  second_level,    \* select_directory's second_level
  selected_entries,
  level,           \* 1, 2, or 0 for None
  sorted_entries,
  final_titles     \* final_sort_titles of the titles: the FinalOutline

pipeVars == <<page, page_text, stage, page_entries, first_level, second_level,
              selected_entries, level, sorted_entries, final_titles>>

VARIABLES
  \* a run of the program: main, and the main it restarts
  pc,              \* where main is
  outcome,         \* "running", or how the run ended
  restarts,        \* how many times main has called main
  book_urls,       \* google_search(book_query): the candidate URLs
  url_index,       \* the candidate loop is about to try book_urls[url_index]
  fetched,         \* the URLs the candidate loop has fetched, in order
  last,            \* the branch the last step took
  have_directory,  \* final_directory is not None
  final_directory,
  final_url,
  manual_tries,    \* the manual URLs tried in the fallback menu
  toc,             \* the lines passed to expand_section_content
  expand_calls,    \* the calls of expand_section_content
  response,        \* expanded_contents, the answer of the model
  saved            \* the values save_json_to_file has written

runVars == <<pc, outcome, restarts, book_urls, url_index, fetched, last, have_directory,
             final_directory, final_url, manual_tries, toc, expand_calls, response, saved>>

VARIABLES
  \* one call of a function of the module on its own
  called,          \* the function
  argument,        \* what it is called with
  call_pc,         \* "call" before the call, "returned" after it
  returned         \* what the call gave

callVars == <<called, argument, call_pc, returned>>

VARIABLES
  \* the runs of create_material on one save file (src/create_material.py)
  save_file,           \* the save file: whether it exists, and its "sections"
  mat_pc,              \* where create_material is
  mat_runs,            \* how many times create_material has been called
  start_section,       \* the parameter of the run; 0 is None
  processed_data,      \* processed_data['sections'] of the run
  processed_sections,  \* the section numbers found in the save file at the start
  section_index,       \* the for loop is at kumon_data['sections'][section_index]
  requested            \* the section numbers the run has asked the model for

matVars == <<save_file, mat_pc, mat_runs, start_section, processed_data, processed_sections,
             section_index, requested>>

vars == <<pipeVars, runVars, callVars, matVars>>

MatIdle ==
  /\ save_file = [exists |-> FALSE, sections |-> <<>>]
  /\ mat_pc = "idle"
  /\ mat_runs = 0
  /\ start_section = 0
  /\ processed_data = <<>>
  /\ processed_sections = {}
  /\ section_index = 0
  /\ requested = <<>>

CallIdle ==
  /\ called = "none"
  /\ argument = <<>>
  /\ call_pc = "idle"
  /\ returned = <<>>

RunIdle ==
  /\ pc = "idle"
  /\ outcome = "idle"
  /\ restarts = 0
  /\ book_urls = <<>>
  /\ url_index = 0
  /\ fetched = <<>>
  /\ last = "none"
  /\ have_directory = FALSE
  /\ final_directory = <<>>
  /\ final_url = "none"
  /\ manual_tries = 0
  /\ toc = <<>>
  /\ expand_calls = 0
  /\ response = <<>>
  /\ saved = <<>>

PipeIdle ==
  /\ page = [a |-> [kind |-> "cn", count |-> 0, order |-> "asc"],
             b |-> [kind |-> "sec", count |-> 0, order |-> "asc"],
             layout |-> "AB", noise |-> "blank", gap |-> 0]
  /\ page_text = <<>>
  /\ stage = "idle"
  /\ page_entries = <<>>
  /\ first_level = <<>>
  /\ second_level = <<>>
  /\ selected_entries = <<>>
  /\ level = 0
  /\ sorted_entries = <<>>
  /\ final_titles = <<>>

\* --------------------------------------------- the pipeline, step by step

PipeInit ==
  /\ page \in Pages
  /\ page_text = PageText(page)
  /\ stage = "text"
  /\ page_entries = <<>>
  /\ first_level = <<>>
  /\ second_level = <<>>
  /\ selected_entries = <<>>
  /\ level = 0
  /\ sorted_entries = <<>>
  /\ final_titles = <<>>
  /\ RunIdle
  /\ CallIdle
  /\ MatIdle

\* entries = extract_directory_tuples_from_text(text); if not entries: continue
Extract ==
  /\ stage = "text"
  /\ page_entries' = extract_directory_tuples_from_text(page_text)
  /\ stage' = IF page_entries' = <<>> THEN "failed" ELSE "extracted"
  /\ UNCHANGED <<page, page_text, first_level, second_level, selected_entries, level,
                 sorted_entries, final_titles>>
  /\ UNCHANGED <<runVars, callVars, matVars>>

\* entries = filter_entries(entries); if not entries: continue
Filter ==
  /\ stage = "extracted"
  /\ page_entries' = filter_entries(page_entries)
  /\ stage' = IF page_entries' = <<>> THEN "failed" ELSE "filtered"
  /\ UNCHANGED <<page, page_text, first_level, second_level, selected_entries, level,
                 sorted_entries, final_titles>>
  /\ UNCHANGED <<runVars, callVars, matVars>>

\* selected_entries, level = select_directory(entries); if not selected_entries: continue
Select ==
  /\ stage = "filtered"
  /\ first_level' = classify_directory_entries(page_entries).first_level
  /\ second_level' = classify_directory_entries(page_entries).second_level
  /\ selected_entries' = select_directory(page_entries).entries
  /\ level' = select_directory(page_entries).level
  /\ stage' = IF selected_entries' = <<>> THEN "failed" ELSE "selected"
  /\ UNCHANGED <<page, page_text, page_entries, sorted_entries, final_titles>>
  /\ UNCHANGED <<runVars, callVars, matVars>>

\* sorted_entries = sort_directory_entries(selected_entries)
Sort ==
  /\ stage = "selected"
  /\ sorted_entries' = sort_directory_entries(selected_entries)
  /\ stage' = "sorted"
  /\ UNCHANGED <<page, page_text, page_entries, first_level, second_level, selected_entries, level,
                 final_titles>>
  /\ UNCHANGED <<runVars, callVars, matVars>>

\* final_titles = [title for ...]; if len(final_titles) >= 30:
\*   final_sorted_titles = final_sort_titles(final_directory)
Clean ==
  /\ stage = "sorted"
  /\ IF Len(TitlesOf(sorted_entries)) >= MinEntries
       THEN /\ final_titles' = final_sort_titles(TitlesOf(sorted_entries))
            /\ stage' = "done"
       ELSE /\ final_titles' = final_titles
            /\ stage' = "failed"
  /\ UNCHANGED <<page, page_text, page_entries, first_level, second_level, selected_entries, level,
                 sorted_entries>>
  /\ UNCHANGED <<runVars, callVars, matVars>>

PipeNext == Extract \/ Filter \/ Select \/ Sort \/ Clean

PipelineSpec == PipeInit /\ [][PipeNext]_vars

\* ------------------------------------------------------------ the web

\* How many candidate URLs a search returns at most.
MaxUrls == 2

\* How many times main is restarted from the fallback menu at most.
MaxRestarts == 1

\* How many manual URLs are tried in one fallback menu at most.
MaxManual == 2

APage(kindA, countA, kindB, countB) ==
  [a |-> [kind |-> kindA, count |-> countA, order |-> "asc"],
   b |-> [kind |-> kindB, count |-> countB, order |-> "asc"],
   layout |-> "AB", noise |-> "blank", gap |-> 0]

\* What fetch_html_content gives for each URL: None, or an html whose text
\* (extract_text_from_html) is the page text.  An html that is not blank can
\* have a blank text.
NoHtml == [none |-> TRUE, blank |-> TRUE, text |-> <<>>]

Html(blank, txt) == [none |-> FALSE, blank |-> blank, text |-> txt]

Urls == {"u_down", "u_blank", "u_notext", "u_noentries", "u_filtered", "u_few",
         "u_primary", "u_secondary", "u_digits"}

Web(u) ==
  CASE u = "u_down"      -> NoHtml
    [] u = "u_blank"     -> Html(TRUE, << <<" ">> >>)
    [] u = "u_notext"    -> Html(FALSE, << <<" ">>, <<>>, <<" ", " ">> >>)
    [] u = "u_noentries" -> Html(FALSE, PageText(APage("ar", MinEntries + 5, "sec", 0)))
    [] u = "u_filtered"  -> Html(FALSE, PageText(APage("ar", 1, "app", MinEntries + 2)))
    [] u = "u_few"       -> Html(FALSE, PageText(APage("cn", MinEntries - 1, "sec", MinEntries - 1)))
    [] u = "u_primary"   -> Html(FALSE, PageText(APage("cn", MinEntries, "sec", MinEntries + 2)))
    [] u = "u_secondary" -> Html(FALSE, PageText(APage("chap", MinEntries - 5, "sec", MinEntries + 2)))
    [] u = "u_digits"    -> Html(FALSE, PageText(APage("cnd", MinEntries + 1, "sec", 0)))

\* text.strip() is empty
IsBlankText(txt) == \A k \in DOMAIN txt : Strip(txt[k]) = <<>>

\* The body of the candidate loop for one html (lines 404-432), and of the
\* manual branch (lines 444-469): the branch taken, and the titles on success.
Skip(branch) == [branch |-> branch, titles |-> <<>>]

TitlesOrSkip(sel) ==
  LET titles == TitlesOf(sort_directory_entries(sel.entries))
  IN  IF sel.entries = <<>> THEN Skip("below_threshold")
      ELSE IF titles # <<>> /\ Len(titles) >= MinEntries
        THEN [branch |-> "ok", titles |-> titles]
      ELSE Skip("sorted_insufficient")

SelectOrSkip(filtered) ==
  IF filtered = <<>> THEN Skip("filtered_empty") ELSE TitlesOrSkip(select_directory(filtered))

FilterOrSkip(extracted) ==
  IF extracted = <<>> THEN Skip("no_entries") ELSE SelectOrSkip(filter_entries(extracted))

CandidateBody(html) ==
  IF html.none \/ html.blank THEN Skip("html_empty")
  ELSE IF IsBlankText(html.text) THEN Skip("text_empty")
  ELSE FilterOrSkip(extract_directory_tuples_from_text(html.text))

\* The manual branch filters without testing the extracted entries first.
ManualBody(html) ==
  IF html.none \/ html.blank THEN Skip("html_empty")
  ELSE IF IsBlankText(html.text) THEN Skip("text_empty")
  ELSE SelectOrSkip(filter_entries(extract_directory_tuples_from_text(html.text)))

\* What each URL gives in the candidate loop and in the manual branch: the
\* web does not change during a run.
WebResults ==
  { [url |-> u, candidate |-> CandidateBody(Web(u)), manual |-> ManualBody(Web(u))] :
      u \in Urls }

CandidateResult(u) == (CHOOSE w \in WebResults : w.url = u).candidate

ManualResult(u) == (CHOOSE w \in WebResults : w.url = u).manual

\* The lists of distinct URLs a search can return.
UrlLists ==
  UNION { {us \in [1..n -> Urls] : \A a, b \in 1..n : us[a] = us[b] => a = b} : n \in 1..MaxUrls }

\* The answers of the model: an object; the object inside other text; the
\* object inside an array; a number; text without braces; braces around text
\* that is no JSON; a closing brace before the opening one; two objects.
TheObject ==
  <<"{", "Q", "a", "Q", ":", " ", "[", "{", "Q", "b", "Q", ":", "1", "}", "]", "}">>

Responses ==
  { TheObject,
    <<"a", "b", " ">> \o TheObject \o <<" ", "a">>,
    <<"[">> \o TheObject \o <<"]">>,
    <<"1">>,
    <<"a", "b">>,
    <<"a", "{", "a", "}">>,
    <<"}", "a", "{">>,
    TheObject \o TheObject }

\* ---------------------------------------------------------------- main

Init ==
  /\ PipeIdle
  /\ CallIdle
  /\ MatIdle
  /\ pc = "start"
  /\ outcome = "running"
  /\ restarts = 0
  /\ book_urls = <<>>
  /\ url_index = 0
  /\ fetched = <<>>
  /\ last = "none"
  /\ have_directory = FALSE
  /\ final_directory = <<>>
  /\ final_url = "none"
  /\ manual_tries = 0
  /\ toc = <<>>
  /\ expand_calls = 0
  /\ response = <<>>
  /\ saved = <<>>

\* Steps 1 to 3 return: no subject, no page for the subject, no book title
\* found, or no page for the book (lines 352-397).
StartReturns ==
  /\ pc = "start"
  /\ \E why \in {"empty_subject", "no_subject_urls", "no_candidate_books", "no_book_urls"} :
       outcome' = why
  /\ pc' = "done"
  /\ last' = "return"
  /\ UNCHANGED <<restarts, book_urls, url_index, fetched, have_directory, final_directory,
                 final_url, manual_tries, toc, expand_calls, response, saved>>
  /\ UNCHANGED <<pipeVars, callVars, matVars>>

\* Steps 1 to 3 end with the candidate URLs of the chosen book; step 4 starts
\* (lines 394-402).
StartSearch ==
  /\ pc = "start"
  /\ \E urls \in UrlLists : book_urls' = urls
  /\ url_index' = 1
  /\ fetched' = <<>>
  /\ have_directory' = FALSE
  /\ final_directory' = <<>>
  /\ final_url' = "none"
  /\ manual_tries' = 0
  /\ last' = "search"
  /\ pc' = "loop"
  /\ UNCHANGED <<outcome, restarts, toc, expand_calls, response, saved>>
  /\ UNCHANGED <<pipeVars, callVars, matVars>>

\* A candidate loop that tries again the URL whose fetch gave nothing.
NextCandidateRetry(branch, i) == IF branch \in {"ok", "html_empty"} THEN i ELSE i + 1

\* The index of the URL the candidate loop is at after a pass that took
\* `branch` at book_urls[i]: break stays, continue (and the else branch at the
\* end of the body) goes to the next URL.
NextCandidate(branch, i) == IF branch = "ok" THEN i ELSE i + 1

\* A fallback menu that is left when the manual URL fails.
AfterManualLeaves(branch) == "check"

\* Where main is after the manual branch took `branch`: break leaves the
\* while True loop, continue returns to the menu.
AfterManual(branch) == IF branch = "ok" THEN "check" ELSE "fallback"

\* One pass of the candidate loop (lines 402-432).
TryCandidate ==
  /\ pc = "loop"
  /\ url_index <= Len(book_urls)
  /\ \E url \in {book_urls[url_index]} : \E r \in {CandidateResult(url)} :
         /\ fetched' = Append(fetched, url)
         /\ last' = r.branch
         /\ url_index' = NextCandidate(r.branch, url_index)
         /\ IF r.branch = "ok"
              THEN /\ final_directory' = r.titles
                   /\ have_directory' = TRUE
                   /\ final_url' = url
                   /\ pc' = "check"
              ELSE UNCHANGED <<final_directory, have_directory, final_url, pc>>
  /\ UNCHANGED <<outcome, restarts, book_urls, manual_tries, toc, expand_calls, response, saved>>
  /\ UNCHANGED <<pipeVars, callVars, matVars>>

\* The candidate loop ends with no URL left; final_directory is None and the
\* fallback menu is entered (lines 435-437).
LoopExhausted ==
  /\ pc = "loop"
  /\ url_index > Len(book_urls)
  /\ pc' = IF have_directory THEN "check" ELSE "fallback"
  /\ last' = "exhausted"
  /\ UNCHANGED <<outcome, restarts, book_urls, url_index, fetched, have_directory, final_directory,
                 final_url, manual_tries, toc, expand_calls, response, saved>>
  /\ UNCHANGED <<pipeVars, callVars, matVars>>

\* The fallback menu, choice 1: a manual URL (lines 442-469).
ManualUrl ==
  /\ pc = "fallback"
  /\ manual_tries < MaxManual
  /\ \E custom_url \in Urls :
       \E r \in {ManualResult(custom_url)} :
         /\ last' = r.branch
         /\ pc' = AfterManual(r.branch)
         /\ IF r.branch = "ok"
              THEN /\ final_directory' = r.titles
                   /\ have_directory' = TRUE
                   /\ final_url' = custom_url
              ELSE UNCHANGED <<final_directory, have_directory, final_url>>
  /\ manual_tries' = manual_tries + 1
  /\ UNCHANGED <<outcome, restarts, book_urls, url_index, fetched, toc, expand_calls, response, saved>>
  /\ UNCHANGED <<pipeVars, callVars, matVars>>

\* The fallback menu, choice 2: return main() (lines 470-472).  The locals of
\* the main that returns are gone; the new main starts with its own.
Restart ==
  /\ pc = "fallback"
  /\ restarts < MaxRestarts
  /\ restarts' = restarts + 1
  /\ pc' = "start"
  /\ last' = "restart"
  /\ book_urls' = <<>>
  /\ url_index' = 0
  /\ fetched' = <<>>
  /\ have_directory' = FALSE
  /\ final_directory' = <<>>
  /\ final_url' = "none"
  /\ manual_tries' = 0
  /\ UNCHANGED <<outcome, toc, expand_calls, response, saved>>
  /\ UNCHANGED <<pipeVars, callVars, matVars>>

\* The fallback menu, any other input (lines 473-474).
InvalidChoice ==
  /\ pc = "fallback"
  /\ last' = "invalid_choice"
  /\ UNCHANGED <<pc, outcome, restarts, book_urls, url_index, fetched, have_directory,
                 final_directory, final_url, manual_tries, toc, expand_calls, response, saved>>
  /\ UNCHANGED <<pipeVars, callVars, matVars>>

\* if final_directory: ... else: print (lines 476, 496-497).
CheckDirectory ==
  /\ pc = "check"
  /\ IF have_directory /\ final_directory # <<>>
       THEN /\ pc' = "expand"
            /\ outcome' = outcome
       ELSE /\ pc' = "done"
            /\ outcome' = "no_directory"
  /\ last' = "check"
  /\ UNCHANGED <<restarts, book_urls, url_index, fetched, have_directory, final_directory,
                 final_url, manual_tries, toc, expand_calls, response, saved>>
  /\ UNCHANGED <<pipeVars, callVars, matVars>>

\* final_sort_titles, then expand_section_content answers (lines 478-483).
Expand ==
  /\ pc = "expand"
  /\ toc' = final_sort_titles(final_directory)
  /\ expand_calls' = expand_calls + 1
  /\ \E r \in Responses : response' = r
  /\ pc' = "fix"
  /\ last' = "expanded"
  /\ UNCHANGED <<outcome, restarts, book_urls, url_index, fetched, have_directory, final_directory,
                 final_url, manual_tries, saved>>
  /\ UNCHANGED <<pipeVars, callVars, matVars>>

\* expand_section_content raises (the request fails, or the answer has no
\* content): the exception leaves every main and is caught at line 502.
ExpandRaises ==
  /\ pc = "expand"
  /\ toc' = final_sort_titles(final_directory)
  /\ expand_calls' = expand_calls + 1
  /\ pc' = "done"
  /\ outcome' = "exception"
  /\ last' = "raised"
  /\ UNCHANGED <<restarts, book_urls, url_index, fetched, have_directory, final_directory,
                 final_url, manual_tries, response, saved>>
  /\ UNCHANGED <<pipeVars, callVars, matVars>>

\* fix_json_content, then save_json_to_file unless it raised (lines 486-495).
FixAndSave ==
  /\ pc = "fix"
  /\ \E fixed_data \in {fix_json_content(response)} :
       IF fixed_data.ok
         THEN /\ saved' = Append(saved, fixed_data.value)
              /\ outcome' = "saved"
         ELSE /\ saved' = saved
              /\ outcome' = "json_error"
  /\ pc' = "done"
  /\ last' = "fixed"
  /\ UNCHANGED <<restarts, book_urls, url_index, fetched, have_directory, final_directory,
                 final_url, manual_tries, toc, expand_calls, response>>
  /\ UNCHANGED <<pipeVars, callVars, matVars>>

Next ==
  \/ StartReturns
  \/ StartSearch
  \/ TryCandidate
  \/ LoopExhausted
  \/ ManualUrl
  \/ Restart
  \/ InvalidChoice
  \/ CheckDirectory
  \/ Expand
  \/ ExpandRaises
  \/ FixAndSave

Spec == Init /\ [][Next]_vars

\* ------------------------------------- the candidate loop, step by step

(***************************************************************************)
(* The for loop of main (lines 402-432) one statement at a time.  The      *)
(* locals text, entries, selected_entries, level and sorted_entries are    *)
(* the locals of main: a pass of the loop finds in them what the pass      *)
(* before it left.  stage is where the pass is; "top" is the head of the   *)
(* loop.                                                                   *)
(***************************************************************************)
LoopInit ==
  /\ pc = "loop"
  /\ outcome = "running"
  /\ restarts = 0
  /\ book_urls \in UrlLists
  /\ url_index = 1
  /\ fetched = <<>>
  /\ last = "search"
  /\ have_directory = FALSE
  /\ final_directory = <<>>
  /\ final_url = "none"
  /\ manual_tries = 0
  /\ toc = <<>>
  /\ expand_calls = 0
  /\ response = <<>>
  /\ saved = <<>>
  /\ page = [a |-> [kind |-> "cn", count |-> 0, order |-> "asc"],
             b |-> [kind |-> "sec", count |-> 0, order |-> "asc"],
             layout |-> "AB", noise |-> "blank", gap |-> 0]
  /\ page_text = <<>>
  /\ stage = "top"
  /\ page_entries = <<>>
  /\ first_level = <<>>
  /\ second_level = <<>>
  /\ selected_entries = <<>>
  /\ level = 0
  /\ sorted_entries = <<>>
  /\ final_titles = <<>>
  /\ CallIdle
  /\ MatIdle

\* continue, and the fall through the else branch at line 431: the next URL.
LoopContinue(branch) ==
  /\ last' = branch
  /\ url_index' = url_index + 1
  /\ stage' = "top"

\* An extraction that adds the entries of the page to those the loop holds.
LoopExtractAccumulating ==
  /\ pc = "loop"
  /\ stage = "text"
  /\ page_entries' = page_entries \o extract_directory_tuples_from_text(page_text)
  /\ IF page_entries' = <<>>
       THEN LoopContinue("no_entries")
       ELSE stage' = "extracted" /\ UNCHANGED <<last, url_index>>
  /\ UNCHANGED <<page, page_text, first_level, second_level, selected_entries, level,
                 sorted_entries, final_titles>>
  /\ UNCHANGED <<pc, outcome, restarts, book_urls, fetched, have_directory, final_directory,
                 final_url, manual_tries, toc, expand_calls, response, saved>>
  /\ UNCHANGED <<callVars, matVars>>

\* html = fetch_html_content(url); text = extract_text_from_html(html), with
\* their two tests (lines 402-411).
LoopFetch ==
  /\ pc = "loop"
  /\ stage = "top"
  /\ url_index <= Len(book_urls)
  /\ \E html \in {Web(book_urls[url_index])} :
       IF html.none \/ html.blank
         THEN LoopContinue("html_empty") /\ page_text' = page_text
       ELSE /\ page_text' = html.text
            /\ IF IsBlankText(html.text)
                 THEN LoopContinue("text_empty")
                 ELSE stage' = "text" /\ UNCHANGED <<last, url_index>>
  /\ fetched' = Append(fetched, book_urls[url_index])
  /\ UNCHANGED <<page, page_entries, first_level, second_level, selected_entries, level,
                 sorted_entries, final_titles>>
  /\ UNCHANGED <<pc, outcome, restarts, book_urls, have_directory, final_directory,
                 final_url, manual_tries, toc, expand_calls, response, saved>>
  /\ UNCHANGED <<callVars, matVars>>

\* entries = extract_directory_tuples_from_text(text) (lines 413-416)
LoopExtract ==
  /\ pc = "loop"
  /\ stage = "text"
  /\ page_entries' = extract_directory_tuples_from_text(page_text)
  /\ IF page_entries' = <<>>
       THEN LoopContinue("no_entries")
       ELSE stage' = "extracted" /\ UNCHANGED <<last, url_index>>
  /\ UNCHANGED <<page, page_text, first_level, second_level, selected_entries, level,
                 sorted_entries, final_titles>>
  /\ UNCHANGED <<pc, outcome, restarts, book_urls, fetched, have_directory, final_directory,
                 final_url, manual_tries, toc, expand_calls, response, saved>>
  /\ UNCHANGED <<callVars, matVars>>

\* entries = filter_entries(entries) (lines 417-420)
LoopFilter ==
  /\ pc = "loop"
  /\ stage = "extracted"
  /\ page_entries' = filter_entries(page_entries)
  /\ IF page_entries' = <<>>
       THEN LoopContinue("filtered_empty")
       ELSE stage' = "filtered" /\ UNCHANGED <<last, url_index>>
  /\ UNCHANGED <<page, page_text, first_level, second_level, selected_entries, level,
                 sorted_entries, final_titles>>
  /\ UNCHANGED <<pc, outcome, restarts, book_urls, fetched, have_directory, final_directory,
                 final_url, manual_tries, toc, expand_calls, response, saved>>
  /\ UNCHANGED <<callVars, matVars>>

\* selected_entries, level = select_directory(entries) (lines 421-424)
LoopSelect ==
  /\ pc = "loop"
  /\ stage = "filtered"
  /\ \E sel \in {select_directory(page_entries)} :
       /\ selected_entries' = sel.entries
       /\ level' = sel.level
       /\ IF sel.entries = <<>>
            THEN LoopContinue("below_threshold")
            ELSE stage' = "selected" /\ UNCHANGED <<last, url_index>>
  /\ UNCHANGED <<page, page_text, page_entries, first_level, second_level, sorted_entries,
                 final_titles>>
  /\ UNCHANGED <<pc, outcome, restarts, book_urls, fetched, have_directory, final_directory,
                 final_url, manual_tries, toc, expand_calls, response, saved>>
  /\ UNCHANGED <<callVars, matVars>>

\* sorted_entries = sort_directory_entries(selected_entries) (line 425)
LoopSort ==
  /\ pc = "loop"
  /\ stage = "selected"
  /\ sorted_entries' = sort_directory_entries(selected_entries)
  /\ stage' = "sorted"
  /\ UNCHANGED <<page, page_text, page_entries, first_level, second_level, selected_entries,
                 level, final_titles>>
  /\ UNCHANGED runVars
  /\ UNCHANGED <<callVars, matVars>>

\* final_titles = [title for ...]; the test of its length; break (lines 426-432)
LoopCheck ==
  /\ pc = "loop"
  /\ stage = "sorted"
  /\ \E titles \in {TitlesOf(sorted_entries)} :
       IF titles # <<>> /\ Len(titles) >= MinEntries
         THEN /\ final_directory' = titles
              /\ final_url' = book_urls[url_index]
              /\ have_directory' = TRUE
              /\ last' = "ok"
              /\ stage' = "found"
              /\ pc' = "check"
              /\ url_index' = url_index
         ELSE /\ LoopContinue("sorted_insufficient")
              /\ UNCHANGED <<final_directory, final_url, have_directory, pc>>
  /\ UNCHANGED <<page, page_text, page_entries, first_level, second_level, selected_entries,
                 level, sorted_entries, final_titles>>
  /\ UNCHANGED <<outcome, restarts, book_urls, fetched, manual_tries, toc, expand_calls,
                 response, saved>>
  /\ UNCHANGED <<callVars, matVars>>

\* The for loop has no URL left (line 435).
LoopEnd ==
  /\ pc = "loop"
  /\ stage = "top"
  /\ url_index > Len(book_urls)
  /\ pc' = "fallback"
  /\ last' = "exhausted"
  /\ UNCHANGED <<outcome, restarts, book_urls, url_index, fetched, have_directory,
                 final_directory, final_url, manual_tries, toc, expand_calls, response, saved>>
  /\ UNCHANGED <<pipeVars, callVars, matVars>>

LoopNext ==
  \/ LoopFetch
  \/ LoopExtract
  \/ LoopFilter
  \/ LoopSelect
  \/ LoopSort
  \/ LoopCheck
  \/ LoopEnd

LoopSpec == LoopInit /\ [][LoopNext]_vars

\* ------------------------------------------------ the functions, called alone

\* The strings of at most n characters of the set A.
StringsUpTo(A, n) == UNION { [1..k -> A] : k \in 0..n }

\* The responses fix_json_content is called with: the text of a JSON object
\* between a prefix without an opening brace and a suffix without a closing
\* brace.
JsonPrefixes ==
  { <<>>, <<" ">>, <<"a", "b", " ">>, <<"[">>, <<"[", "1", ",">>, <<"Q">>, <<"}">>, <<"]", "[">> }

JsonObjects ==
  { TheObject,
    <<"{", "}">>,
    <<"{", "Q", "a", "Q", ":", "1", "}">>,
    <<"{", " ", "Q", "a", "Q", " ", ":", " ", "Q", "b", "Q", " ", "}">>,
    <<"{", "Q", "a", "Q", ":", "{", "Q", "b", "Q", ":", "1", "}", "}">> }

JsonSuffixes ==
  { <<>>, <<" ">>, <<" ", "a">>, <<"]">>, <<",", "1", "]">>, <<"Q">>, <<"{">>, <<"]", "[">> }

JsonCalls ==
  { [prefix |-> P, object |-> J, suffix |-> S] :
      P \in JsonPrefixes, J \in JsonObjects, S \in JsonSuffixes }

\* raw_content of a call
RawContent(a) == a.prefix \o a.object \o a.suffix

\* The prefixes normalize_prefix is called with: every string of at most
\* MaxPrefixLen characters of an ASCII digit, a Chinese numeral, a full width
\* digit, a letter and the placeholder itself.
MaxPrefixLen == 4

PrefixAlphabet == {"1", "shi", "FW1", "a", "#"}

PrefixCalls == StringsUpTo(PrefixAlphabet, MaxPrefixLen)

\* The tokens chinese_to_int is called with: every string of at most
\* MaxTokenLen characters of the Chinese numerals and "bai" (U+767E, hundred).
MaxTokenLen == 3

TokenCalls == StringsUpTo(CnNumeral \cup {"bai"}, MaxTokenLen)

\* The titles is_valid_directory_item is called with: at most MaxCjk
\* ideographs and at most MaxOther letters and digits, in either order, with
\* or without a replacement character after them and white space around them.
MaxCjk == 5

MaxOther == 7

CjkChars == <<"di", "yi", "zhang", "gai", "lun", "wo">>

OtherChars == <<"a", "b", "c", "1", "2", "3", "x", "y">>

\* The first n characters of chars, repeated as often as needed.
FirstChars(chars, n) == [k \in 1..n |-> chars[((k - 1) % Len(chars)) + 1]]

Spaces(n) == [k \in 1..n |-> " "]

TitleCalls ==
  [cjk : 0..MaxCjk, other : 0..MaxOther, cjk_first : BOOLEAN, mojibake : BOOLEAN,
   lead : 0..1, trail : 0..1]

TitleOf(t) ==
  Spaces(t.lead)
    \o (IF t.cjk_first
          THEN FirstChars(CjkChars, t.cjk) \o FirstChars(OtherChars, t.other)
          ELSE FirstChars(OtherChars, t.other) \o FirstChars(CjkChars, t.cjk))
    \o (IF t.mojibake THEN <<REPLACEMENT>> ELSE <<>>)
    \o Spaces(t.trail)

\* The lists filter_entries is called with: at most MaxListLen entries, each
\* with one of these titles: U+7B2C U+4E00 U+7AE0 U+6982 U+8BBA; U+9644 U+5F55
\* U+7532 and U+6982 U+8BBA U+53C2 U+8003 U+6587 U+732E, which hold a word of
\* exclude_words; "ab" and "abcd" U+6211, too short and with too few
\* ideographs; U+9644 U+5F55, too short and a word of exclude_words.
MaxListLen == 3

ListTitles ==
  { <<"di", "yi", "zhang", "gai", "lun">>,
    <<"fu", "lu", "jia">>,
    <<"gai", "lun", "can", "kao", "wen", "xian">>,
    <<"a", "b">>,
    <<"a", "b", "c", "d", "wo">>,
    <<"fu", "lu">> }

ListCalls == StringsUpTo(ListTitles, MaxListLen)

\* The entries of a list of titles, one line each.
EntriesOf(titles) ==
  [k \in DOMAIN titles |-> [raw_prefix |-> <<"1", ".">>, title |-> titles[k], order |-> k - 1]]

\* The lines of the texts extract_directory_tuples_from_text is called with.
\* A chapter line, a blank line, a chapter marker without a title:
LineChapter == <<"di", "yi", "zhang", " ", "gai", "lun">>

LineBlank == <<" ">>

LineNoTitle == <<"di", "yi", "zhang">>

\* a numbered line with white space around it, and a bare number before a
\* Chapter marker:
LineNumbered == <<" ", "2", ".", " ", "gai", "lun", " ">>

LineNumberThenChapter ==
  <<"3", " ", "C", "h", "a", "p", "t", "e", "r", " ", "5", " ", "i", "n", "t", "r", "o">>

\* a copyright stamp, a page marker, a number and punctuation, and the
\* keyword in upper case, each with a marker and a title; a bare number:
LineStamp ==
  <<"(c)", "2", "0", "2", "4", "a", " ", "C", "h", "a", "p", "t", "e", "r", " ", "1", " ", "x">>

LinePageMark == <<"di", "yi", "zhang", " ", "gai", "lun", " ", "1", "2", " ", "ye">>

LineNumberPunct == <<"1", "2", ".", ";">>

LineKeyword ==
  <<"C", "h", "a", "p", "t", "e", "r", " ", "1", " ",
    "A", "P", "P", "E", "N", "D", "I", "C", "E", "S">>

LinePureNumber == <<"1", "2">>

TextLines ==
  { LineChapter, LineBlank, LineNoTitle, LineNumbered, LineNumberThenChapter,
    LineStamp, LinePageMark, LineNumberPunct, LineKeyword, LinePureNumber }

\* The texts: at most MaxLines lines, as text.split('\n').
MaxLines == 3

TextCalls == StringsUpTo(TextLines, MaxLines)

\* The texts extract_book_titles_with_authors is called with: at most
\* MaxSegments of these pieces, one after the other.  A title after a name, a
\* title before a name, a title between letters, a title with white space
\* around it after a name, a blank title before a name, a title after five
\* ideographs.
MaxSegments == 3

Segments ==
  { <<"zhang", "san", "LQ", "a", "RQ">>,
    <<"LQ", "b", "RQ", "lu", "si">>,
    <<"x", "LQ", "c", "RQ", "x">>,
    <<"zhang", "san", "LQ", " ", "a", " ", "RQ">>,
    <<"LQ", " ", "RQ", "lu", "si">>,
    <<"x", "yi", "er", "san", "si", "wu", "LQ", "d", "RQ">> }

\* max_titles: a cap of 1..MaxCap, or the default.
MaxCap == 2

DefaultMaxTitles == 5

BookCalls ==
  [text : {Flatten(segs) : segs \in StringsUpTo(Segments, MaxSegments)},
   max_titles : (1..MaxCap) \cup {DefaultMaxTitles}]

\* The subsections lists auto_correct_json is called with: at most
\* MaxSubsections elements, each a string, a number, or a dict without keys,
\* with "title" and "content", or with the four mandatory keys.
MaxSubsections == 3

NotADict(v) == [dict |-> FALSE, value |-> v, keys |-> {}]

ADict(keys) == [dict |-> TRUE, value |-> "dict", keys |-> keys]

SubsectionElements ==
  { NotADict("a"), NotADict("7"), ADict({}), ADict({"title", "content"}), ADict(mandatory_keys) }

SubsectionLists == StringsUpTo(SubsectionElements, MaxSubsections)

\* The lists final_sort_titles is called with: none, one or two titles, each
\* of at most MaxTitleChars characters of a digit, a space and a letter, or
\* one of two titles with full width digits.
MaxTitleChars == 3

RawTitles ==
  StringsUpTo({"1", " ", "a"}, MaxTitleChars) \cup { <<"FW1", " ", "a">>, <<"a", "FW2", "1">> }

RawTitleLists ==
  {<<>>} \cup { <<t>> : t \in RawTitles } \cup { <<t, u>> : t \in RawTitles, u \in RawTitles }

CallInit ==
  /\ PipeIdle
  /\ RunIdle
  /\ MatIdle
  /\ call_pc = "call"
  /\ returned = <<>>
  /\ \/ called = "fix_json_content" /\ argument \in JsonCalls
     \/ called = "normalize_prefix" /\ argument \in PrefixCalls
     \/ called = "chinese_to_int" /\ argument \in TokenCalls
     \/ called = "is_valid_directory_item" /\ argument \in TitleCalls
     \/ called = "filter_entries" /\ argument \in ListCalls
     \/ called = "extract_directory_tuples_from_text" /\ argument \in TextCalls
     \/ called = "extract_book_titles_with_authors" /\ argument \in BookCalls
     \/ called = "final_sort_titles" /\ argument \in RawTitleLists
     \/ called = "auto_correct_json" /\ argument \in SubsectionLists

\* fixed_data = fix_json_content(expanded_contents)
CallFixJson ==
  /\ call_pc = "call"
  /\ called = "fix_json_content"
  /\ returned' = fix_json_content(RawContent(argument))
  /\ call_pc' = "returned"
  /\ UNCHANGED <<called, argument>>
  /\ UNCHANGED <<pipeVars, runVars, matVars>>

\* norm = normalize_prefix(raw_prefix)
CallNormalize ==
  /\ call_pc = "call"
  /\ called = "normalize_prefix"
  /\ returned' = normalize_prefix(argument)
  /\ call_pc' = "returned"
  /\ UNCHANGED <<called, argument>>
  /\ UNCHANGED <<pipeVars, runVars, matVars>>

\* chinese_to_int(m_cn.group())
CallChineseToInt ==
  /\ call_pc = "call"
  /\ called = "chinese_to_int"
  /\ returned' = chinese_to_int(argument)
  /\ call_pc' = "returned"
  /\ UNCHANGED <<called, argument>>
  /\ UNCHANGED <<pipeVars, runVars, matVars>>

\* is_valid_directory_item(title)
CallIsValid ==
  /\ call_pc = "call"
  /\ called = "is_valid_directory_item"
  /\ returned' = is_valid_directory_item(TitleOf(argument))
  /\ call_pc' = "returned"
  /\ UNCHANGED <<called, argument>>
  /\ UNCHANGED <<pipeVars, runVars, matVars>>

\* entries = filter_entries(entries)
CallFilter ==
  /\ call_pc = "call"
  /\ called = "filter_entries"
  /\ returned' = filter_entries(EntriesOf(argument))
  /\ call_pc' = "returned"
  /\ UNCHANGED <<called, argument>>
  /\ UNCHANGED <<pipeVars, runVars, matVars>>

\* entries = extract_directory_tuples_from_text(text)
CallExtract ==
  /\ call_pc = "call"
  /\ called = "extract_directory_tuples_from_text"
  /\ returned' = extract_directory_tuples_from_text(argument)
  /\ call_pc' = "returned"
  /\ UNCHANGED <<called, argument>>
  /\ UNCHANGED <<pipeVars, runVars, matVars>>

\* books = extract_book_titles_with_authors(text, max_titles)
CallBookTitles ==
  /\ call_pc = "call"
  /\ called = "extract_book_titles_with_authors"
  /\ returned' \in extract_book_titles_with_authors(argument.text, argument.max_titles)
  /\ call_pc' = "returned"
  /\ UNCHANGED <<called, argument>>
  /\ UNCHANGED <<pipeVars, runVars, matVars>>

\* final_sorted_titles = final_sort_titles(final_directory)
CallFinalSort ==
  /\ call_pc = "call"
  /\ called = "final_sort_titles"
  /\ returned' = final_sort_titles(argument)
  /\ call_pc' = "returned"
  /\ UNCHANGED <<called, argument>>
  /\ UNCHANGED <<pipeVars, runVars, matVars>>

\* auto_correct_json on a file with one section
CallAutoCorrect ==
  /\ call_pc = "call"
  /\ called = "auto_correct_json"
  /\ returned' = CorrectSubsections(argument)
  /\ call_pc' = "returned"
  /\ UNCHANGED <<called, argument>>
  /\ UNCHANGED <<pipeVars, runVars, matVars>>

CallNext ==
  \/ CallAutoCorrect
  \/ CallFinalSort
  \/ CallFixJson
  \/ CallNormalize
  \/ CallChineseToInt
  \/ CallIsValid
  \/ CallFilter
  \/ CallExtract
  \/ CallBookTitles

CallSpec == CallInit /\ [][CallNext]_vars

\* --------------------------------------------- the runs of create_material

\* How many times create_material is run on the save file at most.
MaxRuns == 2

\* kumon_data['sections'] of the input file: three sections with the
\* section numbers 1, 2, 3.
KumonSections == [i \in 1..3 |-> [section_number |-> i, description |-> i]]

\* What the model answers, as far as the keys "section_number" and
\* "description" go: an object without them, as the prompt asks for, or an
\* object with a "section_number" of its own.
ApiResponses ==
  { [numbered |-> FALSE, section_number |-> 0], [numbered |-> TRUE, section_number |-> 2] }

\* The values start_section is given: None, or a section number.
StartSections == {0, 2}

\* {"section_number": ..., "description": ..., **api_response} (lines
\* 104-108): a key of api_response replaces the key written before it.
ordered_section(section, api_response) ==
  [section_number |-> IF api_response.numbered THEN api_response.section_number
                                              ELSE section.section_number,
   description |-> section.description]

\* The two tests at the head of the loop body (lines 72-77).
Skipped(section) ==
  \/ start_section # 0 /\ section.section_number < start_section
  \/ section.section_number \in processed_sections

MatInit ==
  /\ PipeIdle
  /\ RunIdle
  /\ CallIdle
  /\ MatIdle

\* create_material(save_file, start_section) up to the loop (lines 53-67).
MatStart ==
  /\ mat_pc \in {"idle", "stopped", "finished"}
  /\ mat_runs < MaxRuns
  /\ mat_runs' = mat_runs + 1
  /\ \E s \in StartSections : start_section' = s
  /\ processed_data' = IF save_file.exists THEN save_file.sections ELSE <<>>
  /\ processed_sections' = {processed_data'[k].section_number : k \in DOMAIN processed_data'}
  /\ section_index' = 1
  /\ requested' = <<>>
  /\ mat_pc' = "loop"
  /\ UNCHANGED save_file
  /\ UNCHANGED <<pipeVars, runVars, callVars>>

\* continue (lines 72-77)
MatSkip ==
  /\ mat_pc = "loop"
  /\ section_index <= Len(KumonSections)
  /\ Skipped(KumonSections[section_index])
  /\ section_index' = section_index + 1
  /\ UNCHANGED <<save_file, mat_pc, mat_runs, start_section, processed_data, processed_sections,
                 requested>>
  /\ UNCHANGED <<pipeVars, runVars, callVars>>

\* The model is asked for the section, its answer is appended and the save
\* file is written (lines 79-118).
MatProcess ==
  /\ mat_pc = "loop"
  /\ section_index <= Len(KumonSections)
  /\ ~Skipped(KumonSections[section_index])
  /\ \E api_response \in ApiResponses :
       processed_data' =
         Append(processed_data, ordered_section(KumonSections[section_index], api_response))
  /\ save_file' = [exists |-> TRUE, sections |-> processed_data']
  /\ requested' = Append(requested, KumonSections[section_index].section_number)
  /\ section_index' = section_index + 1
  /\ UNCHANGED <<mat_pc, mat_runs, start_section, processed_sections>>
  /\ UNCHANGED <<pipeVars, runVars, callVars>>

\* The request raises, or the answer is no JSON (lines 88-97): the exception
\* ends the run (lines 121-122).
MatError ==
  /\ mat_pc = "loop"
  /\ section_index <= Len(KumonSections)
  /\ ~Skipped(KumonSections[section_index])
  /\ requested' = Append(requested, KumonSections[section_index].section_number)
  /\ mat_pc' = "stopped"
  /\ UNCHANGED <<save_file, mat_runs, start_section, processed_data, processed_sections,
                 section_index>>
  /\ UNCHANGED <<pipeVars, runVars, callVars>>

\* The loop has no section left (line 120).
MatFinish ==
  /\ mat_pc = "loop"
  /\ section_index > Len(KumonSections)
  /\ mat_pc' = "finished"
  /\ UNCHANGED <<save_file, mat_runs, start_section, processed_data, processed_sections,
                 section_index, requested>>
  /\ UNCHANGED <<pipeVars, runVars, callVars>>

MatNext ==
  \/ MatStart
  \/ MatSkip
  \/ MatProcess
  \/ MatError
  \/ MatFinish

MaterialSpec == MatInit /\ [][MatNext]_vars

\* ------------------------------------------------ claims: the pipeline

\* select_directory has run on the filtered entries of the page.
SelectRan ==
  \/ stage \in {"selected", "sorted", "done"}
  \/ stage = "failed" /\ page_entries # <<>>

PassEnded == stage \in {"done", "failed"}

\* C1: select_directory returns (Primary, 1) whenever Primary has at least 30
\* entries, even when Secondary is larger; otherwise (Secondary, 2) when
\* Secondary has at least 30; otherwise (None, None).  The list returned is one
\* of the two partitions, never a mix.
C1_SelectPrefersPrimary ==
  SelectRan =>
    /\ Len(first_level) >= 30 => selected_entries = first_level /\ level = 1
    /\ Len(first_level) < 30 /\ Len(second_level) >= 30 =>
         selected_entries = second_level /\ level = 2
    /\ Len(first_level) < 30 /\ Len(second_level) < 30 =>
         selected_entries = <<>> /\ level = 0

C1_Witness ==
  /\ stage = "selected"
  /\ level = 1
  /\ Len(second_level) > Len(first_level)

\* The numerals of a prefix, as the claims speak of them: Arabic digits and
\* Chinese numeral characters.
ClaimNumerals ==
  {"0", "1", "2", "3", "4", "5", "6", "7", "8", "9",
   "ling", "yi", "er", "san", "si", "wu", "liu", "qi", "ba", "jiu", "shi"}

\* p and q are equal up to their runs of numerals: read side by side, a run
\* of numerals in one meets a run of numerals in the other, and every other
\* character meets the same character.
SameUpToNumerals(p, q) ==
  LET RECURSIVE Same(_, _)
      Same(i, j) ==
        IF i > Len(p) \/ j > Len(q) THEN i > Len(p) /\ j > Len(q)
        ELSE IF p[i] \in ClaimNumerals /\ q[j] \in ClaimNumerals
          THEN Same(SkipWhile(p, i, ClaimNumerals), SkipWhile(q, j, ClaimNumerals))
        ELSE p[i] = q[j] /\ Same(i + 1, j + 1)
  IN  Same(1, 1)

IsIncreasingByOrder(es) == \A i \in 1..(Len(es) - 1) : es[i].order < es[i + 1].order

AtRank(es, i) == CHOOSE e \in es : Cardinality({f \in es : f.order <= e.order}) = i

\* C3: the titles of the FinalOutline are in ascending position (line index)
\* of the selected entries, whatever the numerals of their prefixes.
C3_OutlineInPositionOrder ==
  stage = "done" =>
    /\ Len(final_titles) = Len(selected_entries)
    /\ \A i \in DOMAIN final_titles :
         final_titles[i] =
           Strip(RemoveDigits(AtRank(Range(selected_entries), i).title))

\* An outline whose chapter numbers are not ascending in document order.
C3_Witness ==
  /\ stage = "done"
  /\ \E i \in 1..(Len(sorted_entries) - 1) :
       parse_chapter_number(sorted_entries[i].raw_prefix).value
         > parse_chapter_number(sorted_entries[i + 1].raw_prefix).value

\* The 35 lines "第{n}章 标题{n}", n = 1..35.
ThirtyFiveLines == [n \in 1..35 |-> Line("ar", n)]

\* C4: on the 35 lines "第{n}章 标题{n}" the pipeline returns a FinalOutline of
\* exactly 35 entries, in n-ascending order, the digits stripped from each title.
C4_ThirtyFiveChapters ==
  page_text = ThirtyFiveLines /\ PassEnded =>
    /\ stage = "done"
    /\ final_titles = [n \in 1..35 |-> <<"biao", "ti">>]

\* C5: noise lines (page numbers, copyright stamps, blank lines) inserted
\* between the lines of a page leave the result of the pass unchanged: the
\* same outline from the same level, or no outline.
C5_NoiseLeavesOutlineUnchanged ==
  PassEnded /\ page.gap # 0 =>
    \E clean \in {OutlineOf(CleanText(page))} :
      /\ clean.ok = (stage = "done")
      /\ stage = "done" => clean.titles = final_titles /\ clean.level = level

C5_Witness ==
  /\ stage = "done"
  /\ page.gap # 0
  /\ page.noise = "stamp"
  /\ Len(page_text) > Len(CleanText(page)) + 10

\* C10 as claimed: the FinalOutline contains no two equal titles.
C10_OutlineHasNoDuplicates ==
  stage = "done" =>
    \A i, j \in DOMAIN final_titles : final_titles[i] = final_titles[j] => i = j

\* C10 as amended: nothing is deduplicated; the FinalOutline has one title
\* per selected entry, the cleaned title of that entry, equal titles included.
C10_OutlineKeepsEveryEntry ==
  stage = "done" =>
    /\ Len(final_titles) = Len(selected_entries)
    /\ \A i \in DOMAIN sorted_entries :
         final_titles[i] = Strip(RemoveDigits(sorted_entries[i].title))

\* An outline with two equal titles.
C10_Witness ==
  /\ stage = "done"
  /\ \E i, j \in DOMAIN final_titles : i # j /\ final_titles[i] = final_titles[j]

\* C21: filter_entries, classify_directory_entries, select_directory and
\* sort_directory_entries leave the list they are given as it is and give
\* only entries of that list, each with its raw_prefix, title and position
\* unchanged; so every entry of every stage is an entry of the extractor, and
\* the digits of a title are there until final_sort_titles.
C21_StagesKeepEntries ==
  [][/\ stage = "extracted" => Range(page_entries') \subseteq Range(page_entries)
     /\ stage = "filtered" =>
          /\ page_entries' = page_entries
          /\ Range(first_level') \cup Range(second_level') \subseteq Range(page_entries)
          /\ Range(selected_entries') \subseteq Range(page_entries)
     /\ stage = "selected" =>
          /\ selected_entries' = selected_entries
          /\ page_entries' = page_entries
          /\ Range(sorted_entries') \subseteq Range(selected_entries)
     /\ stage = "sorted" =>
          /\ sorted_entries' = sorted_entries
          /\ selected_entries' = selected_entries]_vars

\* A selection was sorted whose titles hold digits, after the filter and the
\* classification had set entries aside.
C21_Witness ==
  /\ stage = "sorted"
  /\ \A i \in DOMAIN sorted_entries : \E k \in DOMAIN sorted_entries[i].title :
       sorted_entries[i].title[k] \in AsciiDigit
  /\ Len(selected_entries) < Len(page_entries)
  /\ second_level # <<>>

\* -------------------------------------------------- claims: the driver

\* Every URL of `urls` fails in the candidate loop.
AllFail(urls) == \A k \in DOMAIN urls : CandidateResult(urls[k]).branch # "ok"

\* The directory was found by the candidate loop (no manual URL was tried).
FoundByLoop == have_directory /\ manual_tries = 0

\* C6: the candidate loop fetches the URLs in the order of the search result,
\* each at most once; a URL is fetched only after every URL before it has
\* failed, whatever the failure; the loop stops at the first URL that gives at
\* least 30 titles, so the directory is that of the earliest successful URL
\* and no URL after it is fetched.
C6_CandidatesInOrder ==
  /\ Len(fetched) <= Len(book_urls)
  /\ \A k \in DOMAIN fetched : fetched[k] = book_urls[k]
  /\ \A j, k \in DOMAIN fetched : fetched[j] = fetched[k] => j = k
  /\ AllFail(SubSeq(fetched, 1, Len(fetched) - 1))
  /\ pc = "loop" => url_index = Len(fetched) + 1 /\ AllFail(fetched)
  /\ pc = "fallback" => Len(fetched) = Len(book_urls) /\ AllFail(fetched)
  /\ FoundByLoop =>
       /\ fetched # <<>>
       /\ final_url = fetched[Len(fetched)]
       /\ CandidateResult(final_url).branch = "ok"
       /\ final_directory = CandidateResult(final_url).titles
       /\ Len(final_directory) >= 30

\* The second URL succeeded after the first one failed.
C6_Witness ==
  /\ pc = "check"
  /\ FoundByLoop
  /\ Len(fetched) = 2
  /\ final_url = book_urls[2]

\* C7: when every candidate URL has failed main enters the fallback menu and
\* the run goes on; the menu is left only by a manual URL that gives at least
\* 30 titles, which goes on to the expansion, or by the restart; a failed
\* manual URL and an invalid choice return to the menu.
C7_FallbackExits ==
  [][ /\ (pc = "loop" /\ url_index > Len(book_urls)) =>
           pc' = "fallback" /\ outcome' = "running"
      /\ pc = "fallback" =>
           \/ pc' = "fallback" /\ ~have_directory' /\ outcome' = "running"
           \/ /\ pc' = "check"
              /\ last' = "ok"
              /\ have_directory'
              /\ Len(final_directory') >= 30
              /\ manual_tries' = manual_tries + 1
           \/ pc' = "start" /\ last' = "restart" /\ restarts' = restarts + 1
      /\ (pc = "fallback" /\ last' \notin {"ok", "restart"}) => pc' = "fallback"
      /\ (pc = "check" /\ manual_tries > 0) => pc' = "expand"
    ]_vars

\* After a restart, a manual URL failed and the next one gave the directory.
C7_Witness ==
  /\ pc = "expand"
  /\ restarts >= 1
  /\ manual_tries >= 2

\* json.loads fails on raw, and on raw from its first "{" to its last "}", or
\* raw has no such pair of braces.
Unparsable(raw) ==
  /\ ~json_loads(raw).ok
  /\ \/ FindFrom(raw, 1, "{") = 0
     \/ FindLast(raw, "}") <= FindFrom(raw, 1, "{")
     \/ ~json_loads(SubSeq(raw, FindFrom(raw, 1, "{"), FindLast(raw, "}"))).ok

\* C8: save_json_to_file is called at most once in a run, and only after an
\* outline of at least 30 titles was expanded and fix_json_content returned a
\* value; when the answer parses neither as it is nor from its first "{" to
\* its last "}", the run ends with nothing saved.
C8_SaveOnlyParsedOutline ==
  /\ Len(saved) <= 1
  /\ saved # <<>> =>
       /\ outcome = "saved"
       /\ expand_calls >= 1
       /\ Len(toc) >= 30
       /\ ~Unparsable(response)
  /\ (pc = "done" /\ last = "fixed" /\ Unparsable(response)) =>
       outcome = "json_error" /\ saved = <<>>
  /\ outcome = "json_error" => pc = "done" /\ saved = <<>> /\ Unparsable(response)
  /\ outcome \in {"exception", "no_directory"} => saved = <<>>

\* The answer has a pair of braces and does not parse: nothing is saved.
C8_Witness ==
  /\ outcome = "json_error"
  /\ FindFrom(response, 1, "{") # 0
  /\ FindLast(response, "}") > FindFrom(response, 1, "{")
  /\ saved = <<>>

\* C9: whenever expand_section_content has been called, after the candidate
\* loop or after a manual URL, the outline passed to it has at least 30 titles.
C9_ExpandGetsThirtyTitles == expand_calls > 0 => Len(toc) >= 30

\* The expansion was called with the outline of a manual URL whose titles
\* carry digits.
C9_Witness ==
  /\ expand_calls > 0
  /\ manual_tries > 0
  /\ final_url = "u_digits"
  /\ Len(toc) >= 30

\* C25: a selection select_directory returned is never found too short after
\* the sort: no URL takes the "sorted entries insufficient" branch, in the
\* candidate loop or in the manual branch; main reaches `if final_directory:`
\* only with a directory of at least 30 titles, so its else branch ("failed
\* to extract a valid directory") is never taken.
C25_InsufficientBranchesDead ==
  /\ \A w \in WebResults :
       /\ w.candidate.branch # "sorted_insufficient"
       /\ w.manual.branch # "sorted_insufficient"
  /\ last # "sorted_insufficient"
  /\ outcome # "no_directory"
  /\ pc = "check" => have_directory /\ Len(final_directory) >= MinEntries
  /\ ~(pc = "done" /\ last = "check" /\ ~have_directory)

C25_Witness ==
  /\ pc = "check"
  /\ last = "ok"
  /\ manual_tries > 0
  /\ Len(final_directory) >= MinEntries
  /\ \E i \in DOMAIN fetched : CandidateResult(fetched[i]).branch = "below_threshold"

\* -------------------------------------------- claims: the functions alone

\* The call of the function fn has returned.
Returned(fn) == called = fn /\ call_pc = "returned"

\* C11 as stated: for every response P + J + S where J is the text of a valid
\* JSON object, P has no opening brace and S no closing brace,
\* fix_json_content gives the value of J; and a response that is valid JSON as
\* a whole gives its direct parse.
C11_RecoversEmbeddedObject ==
  Returned("fix_json_content") =>
    \E whole \in {json_loads(RawContent(argument))} :
      /\ returned = json_loads(argument.object)
      /\ whole.ok => returned = whole

\* C11, amended: a response P + J + S that is valid JSON as a whole gives its
\* direct parse; every other one gives the value of J.
C11_RecoversUnlessWholeParses ==
  Returned("fix_json_content") =>
    \E whole \in {json_loads(RawContent(argument))} :
      IF whole.ok THEN returned = whole
      ELSE returned = json_loads(argument.object)

\* An object recovered from between a prefix and a suffix that are not empty.
C11_Witness ==
  /\ Returned("fix_json_content")
  /\ argument.prefix # <<>>
  /\ argument.suffix # <<>>
  /\ ~json_loads(RawContent(argument)).ok
  /\ returned.ok
  /\ returned = json_loads(argument.object)

\* x with every maximal run of numerals replaced by one placeholder and every
\* other character kept.
CollapseRuns(x) ==
  Flatten([i \in DOMAIN x |->
             IF x[i] \notin ClaimNumerals THEN <<x[i]>>
             ELSE IF i = 1 \/ x[i - 1] \notin ClaimNumerals THEN <<"#">>
             ELSE <<>>])

CnValue ==
  [ling |-> 0, yi |-> 1, er |-> 2, san |-> 3, si |-> 4, wu |-> 5, liu |-> 6, qi |-> 7,
   ba |-> 8, jiu |-> 9]

IsCnDigit(c) == c \in DOMAIN CnValue

\* The tokens of the tens and ones grammar: d, shi, shi d, d shi, d shi e.
InGrammar(t) ==
  \/ Len(t) = 1 /\ (IsCnDigit(t[1]) \/ t[1] = "shi")
  \/ Len(t) = 2 /\ t[1] = "shi" /\ IsCnDigit(t[2])
  \/ Len(t) = 2 /\ IsCnDigit(t[1]) /\ t[2] = "shi"
  \/ Len(t) = 3 /\ IsCnDigit(t[1]) /\ t[2] = "shi" /\ IsCnDigit(t[3])

\* The number a token of the grammar denotes.
GrammarValue(t) ==
  IF Len(t) = 1 THEN (IF t[1] = "shi" THEN 10 ELSE CnValue[t[1]])
  ELSE IF Len(t) = 2 THEN (IF t[1] = "shi" THEN 10 + CnValue[t[2]] ELSE 10 * CnValue[t[1]])
  ELSE 10 * CnValue[t[1]] + CnValue[t[3]]

\* C13: chinese_to_int returns the number of every token of the tens and ones
\* grammar: d gives d, shi gives 10, shi d gives 10 + d, d shi gives 10 * d,
\* d shi e gives 10 * d + e.
C13_GrammarTokensConverted ==
  (Returned("chinese_to_int") /\ InGrammar(argument)) =>
    /\ ~returned.raised
    /\ returned.value = GrammarValue(argument)

\* A token with a tens digit and a ones digit was converted.
C13_Witness ==
  /\ Returned("chinese_to_int")
  /\ argument = <<"er", "shi", "san">>
  /\ returned.value = 23

\* C14 as stated: on every token outside the grammar chinese_to_int returns
\* None, no integer and no exception; so every integer it returns is within
\* 0..99.
C14_FailsSilentlyOutsideGrammar ==
  Returned("chinese_to_int") =>
    /\ ~InGrammar(argument) => (~returned.raised /\ returned.value \notin Int)
    /\ ~returned.raised => returned.value \in 0..99

\* C15: is_valid_directory_item(title) is true exactly when the title has no
\* replacement character, its trimmed length is at least 3 and its ideographs
\* are at least 30% of the trimmed length (exactly 30% is accepted).
C15_ValidIffThreeTests ==
  Returned("is_valid_directory_item") =>
    (returned <=> /\ ~argument.mojibake
                  /\ argument.cjk + argument.other >= 3
                  /\ 10 * argument.cjk >= 3 * (argument.cjk + argument.other))

\* A title of ten characters, three of them ideographs, was accepted.
C15_Witness ==
  /\ Returned("is_valid_directory_item")
  /\ argument.cjk = 3
  /\ argument.other = 7
  /\ ~argument.mojibake
  /\ argument.lead = 1
  /\ returned

\* The titles of ListTitles that are valid, and those that are relevant.
ValidTitles ==
  { <<"di", "yi", "zhang", "gai", "lun">>, <<"fu", "lu", "jia">>,
    <<"gai", "lun", "can", "kao", "wen", "xian">> }

RelevantTitles ==
  { <<"di", "yi", "zhang", "gai", "lun">>, <<"a", "b">>, <<"a", "b", "c", "d", "wo">> }

\* C16: filter_entries returns exactly the entries whose title is both valid
\* and relevant, in their original order; a valid title holding a blocklist
\* term is dropped, and so is a relevant title that is not valid.
C16_FilterKeepsValidAndRelevant ==
  Returned("filter_entries") =>
    LET kept == {k \in DOMAIN argument : argument[k] \in ValidTitles \cap RelevantTitles}
    IN  /\ Len(returned) = Cardinality(kept)
        /\ \A j \in DOMAIN returned :
             /\ returned[j].order + 1 \in kept
             /\ returned[j] = EntriesOf(argument)[returned[j].order + 1]
        /\ \A j \in 1..(Len(returned) - 1) : returned[j].order < returned[j + 1].order

\* One entry was kept from between a valid title with a blocklist term and a
\* relevant title that is not valid.
C16_Witness ==
  /\ Returned("filter_entries")
  /\ argument = << <<"gai", "lun", "can", "kao", "wen", "xian">>,
                   <<"di", "yi", "zhang", "gai", "lun">>,
                   <<"a", "b">> >>
  /\ Len(returned) = 1
  /\ returned[1].order = 1

\* The lines of TextLines that match a hard exclusion pattern or hold the
\* keyword, and those that give an entry.
ExcludedLines == {LineStamp, LinePageMark, LineNumberPunct, LineKeyword, LinePureNumber}

EntryLines == {LineChapter, LineNumbered, LineNumberThenChapter}

\* The zero-based indexes of the lines of the entries es.
OrdersOf(es) == {es[j].order : j \in DOMAIN es}

\* C17: a line that matches a hard exclusion pattern, or holds the keyword
\* "appendices" in any letter case, never gives an entry, even when it also
\* holds a chapter marker followed by a title.
C17_ExcludedLineGivesNoEntry ==
  Returned("extract_directory_tuples_from_text") =>
    \A k \in DOMAIN argument :
      argument[k] \in ExcludedLines => (k - 1) \notin OrdersOf(returned)

\* The marker pattern matches the line s, with a title after the marker.
HasMarkerAndTitle(s) ==
  MarkerSearch(s) # 0 /\ Strip(MarkerGroup2(s, MarkerSearch(s))) # <<>>

\* An excluded line of each kind that holds a marker and a title was passed
\* over, between two lines that gave entries.
C17_Witness ==
  /\ Returned("extract_directory_tuples_from_text")
  /\ Len(argument) = 3
  /\ argument[2] \in {LineStamp, LinePageMark, LineNumberPunct, LineKeyword}
  /\ HasMarkerAndTitle(argument[2])
  /\ OrdersOf(returned) = {0, 2}

\* The end of a specific marker (U+7B2C numeral U+7AE0 or U+8282, or a
\* keyword and a number) that starts at i; 0 when none starts there.
SpecificMarkerEnd(s, i) ==
  FirstMatch(<<AltChinese(s, i),
               FirstMatch([w \in DOMAIN MarkerWords |-> AltWord(s, i, MarkerWords[w])])>>)

\* C18 as stated: the entry of a line that holds a specific marker has that
\* marker as its raw_prefix and the text after it as its title, even when a
\* bare number stands elsewhere in the line, before the marker included.
C18_SpecificMarkerFirst ==
  Returned("extract_directory_tuples_from_text") =>
    \A j \in DOMAIN returned :
      \E line \in {Strip(argument[returned[j].order + 1])} :
        (\E i \in DOMAIN line : SpecificMarkerEnd(line, i) # 0) =>
          \E i \in DOMAIN line :
            /\ SpecificMarkerEnd(line, i) # 0
            /\ returned[j].raw_prefix = Strip(Slice(line, i, SpecificMarkerEnd(line, i)))
            /\ returned[j].title =
                 Strip(Slice(line,
                             SkipColon(line, SkipWhile(line, SpecificMarkerEnd(line, i), Space)),
                             Len(line) + 1))

\* t ends s.
IsSuffix(t, s) == Len(t) <= Len(s) /\ SubSeq(s, Len(s) - Len(t) + 1, Len(s)) = t

\* C19: every entry of extract_directory_tuples_from_text has a title that is
\* not empty after trimming and the zero-based index of its line among all
\* the lines, blank and discarded ones counted; a line gives at most one
\* entry, so the positions are strictly increasing.
C19_EntriesCarryLineIndex ==
  Returned("extract_directory_tuples_from_text") =>
    /\ OrdersOf(returned) = {k - 1 : k \in {x \in DOMAIN argument : argument[x] \in EntryLines}}
    /\ \A j \in DOMAIN returned :
         /\ Strip(returned[j].title) # <<>>
         /\ IsSuffix(returned[j].title, Strip(argument[returned[j].order + 1]))
    /\ \A j \in 1..(Len(returned) - 1) : returned[j].order < returned[j + 1].order

\* Two entries came from around a blank line.
C19_Witness ==
  /\ Returned("extract_directory_tuples_from_text")
  /\ argument = <<LineNumbered, LineBlank, LineChapter>>
  /\ Len(returned) = 2
  /\ returned[2].order = 2

\* The first n distinct elements of seq that are not empty, in their order.
FirstDistinct(seq, n) ==
  LET RECURSIVE Upto(_)
      Upto(k) ==
        IF k = 0 THEN <<>>
        ELSE IF \/ Len(Upto(k - 1)) >= n
                \/ seq[k] = <<>>
                \/ \E j \in 1..(k - 1) : seq[j] = seq[k]
          THEN Upto(k - 1)
        ELSE Append(Upto(k - 1), seq[k])
  IN  Upto(Len(seq))

\* The title t stands between title marks in s, right after or right before
\* 2 to 4 ideographs.
QuotedNextToName(s, t) ==
  \E i \in DOMAIN s : \E j \in (i + 2)..Len(s) :
    /\ s[i] = "LQ"
    /\ s[j] = "RQ"
    /\ \A k \in (i + 1)..(j - 1) : s[k] \notin {"LQ", "RQ"}
    /\ Strip(Slice(s, i + 1, j)) = t
    /\ \/ i > 2 /\ s[i - 1] \in HanName /\ s[i - 2] \in HanName
       \/ j + 2 <= Len(s) /\ s[j + 1] \in HanName /\ s[j + 2] \in HanName

\* C20 as stated: extract_book_titles_with_authors returns the first
\* max_titles distinct titles in the order of their matches in the text, each
\* the content of a quoted span right after or right before 2 to 4 ideographs.
C20_TitlesInDiscoveryOrder ==
  Returned("extract_book_titles_with_authors") =>
    /\ \E matches \in {BookFindAll(argument.text)} :
         returned = FirstDistinct([k \in DOMAIN matches |-> BookTitleOf(matches[k])],
                                  argument.max_titles)
    /\ \A j \in DOMAIN returned : QuotedNextToName(argument.text, returned[j])

\* The decimal digits: the ASCII ones and the full width ones.
ClaimDigits == {"0", "1", "2", "3", "4", "5", "6", "7", "8", "9", "FW1", "FW2"}

\* The characters of t that are no digits, in their order.
WithoutDigits(t) ==
  LET RECURSIVE Upto(_)
      Upto(k) ==
        IF k = 0 THEN <<>>
        ELSE IF t[k] \in ClaimDigits THEN Upto(k - 1)
        ELSE Append(Upto(k - 1), t[k])
  IN  Upto(Len(t))

\* out is t without the white space at its two ends.
IsTrimOf(out, t) ==
  /\ \E a \in 0..Len(t) : \E b \in 0..(Len(t) - a) :
       /\ \A k \in (1..a) \cup ((Len(t) - b + 1)..Len(t)) : t[k] = " "
       /\ out = SubSeq(t, a + 1, Len(t) - b)
  /\ out # <<>> => out[1] # " " /\ out[Len(out)] # " "

\* C23: final_sort_titles returns a list of the same length and order as its
\* input, each title being the input title with every digit removed and then
\* trimmed; no output title holds a digit, and a second application changes
\* nothing.
C23_DigitsRemovedThenTrimmed ==
  Returned("final_sort_titles") =>
    /\ Len(returned) = Len(argument)
    /\ \A i \in DOMAIN returned :
         /\ IsTrimOf(returned[i], WithoutDigits(argument[i]))
         /\ \A k \in DOMAIN returned[i] : returned[i][k] \notin ClaimDigits
    /\ final_sort_titles(returned) = returned

\* Two titles were cleaned; in the first a space came to the front when the
\* digit before it was removed.
C23_Witness ==
  /\ Returned("final_sort_titles")
  /\ argument = << <<"1", " ", "a">>, <<"a", "FW2", "1">> >>
  /\ returned = << <<"a">>, <<"a">> >>

\* C24 as stated: after auto_correct_json, whatever the subsections list
\* held, every element left in it is a dict with the four mandatory keys and
\* without "title"; the elements that are no dicts are all removed.
C24_SubsectionsAllCorrected ==
  Returned("auto_correct_json") =>
    \A i \in DOMAIN returned :
      /\ returned[i].dict
      /\ mandatory_keys \subseteq returned[i].keys
      /\ "title" \notin returned[i].keys

\* ------------------------------------------- claims: the candidate loop

\* What the statements of one pass give for the page of each URL, computed
\* from the text of that page alone.
PassResults ==
  { [url |-> u,
     text |-> Web(u).text,
     extracted |-> extract_directory_tuples_from_text(Web(u).text),
     filtered |-> filter_entries(extract_directory_tuples_from_text(Web(u).text)),
     selection |-> select_directory(
                     filter_entries(extract_directory_tuples_from_text(Web(u).text)))] :
      u \in Urls }

PassOf(u) == CHOOSE p \in PassResults : p.url = u

\* C22: in the candidate loop, whatever URLs were tried before and in
\* whatever order, each statement of a pass gives what it gives for this
\* page alone: the entries, the filtered entries, the selection and its
\* level, the sorted entries, the branch the pass ends with and the titles
\* kept as final_directory.
C22_PassDependsOnPageOnly ==
  /\ stage \in {"text", "extracted", "filtered", "selected", "sorted"} =>
       \E p \in {PassOf(book_urls[url_index])} :
         /\ page_text = p.text
         /\ stage = "extracted" => page_entries = p.extracted
         /\ stage \in {"filtered", "selected", "sorted"} => page_entries = p.filtered
         /\ stage \in {"selected", "sorted"} =>
              selected_entries = p.selection.entries /\ level = p.selection.level
         /\ stage = "sorted" => sorted_entries = sort_directory_entries(p.selection.entries)
  /\ (stage = "top" /\ pc = "loop" /\ url_index > 1) =>
       last = CandidateResult(book_urls[url_index - 1]).branch
  /\ stage = "found" =>
       /\ final_url = book_urls[url_index]
       /\ CandidateResult(final_url) = [branch |-> "ok", titles |-> final_directory]
       /\ level = PassOf(final_url).selection.level

\* The second URL gives a directory after the first one left its filtered
\* entries in the locals of the loop.
C22_Witness ==
  /\ stage = "found"
  /\ url_index = 2
  /\ PassOf(book_urls[1]).filtered # <<>>
  /\ page_entries = PassOf(book_urls[2]).filtered

\* -------------------------------------- claims: the runs of create_material

\* s is the beginning of t.
IsPrefix(s, t) == Len(s) <= Len(t) /\ SubSeq(t, 1, Len(s)) = s

\* C26 as stated: whatever runs of create_material came before, stopped by
\* an error or not, every step leaves each section_number at most once in
\* the save file; a run asks the model for no section whose number the save
\* file held when the run started; and a step that changes the save file
\* writes the sections it held, in their order, followed by one new section.
C26_ResumableWithoutDuplication ==
  [][/\ \A a, b \in DOMAIN save_file'.sections :
          save_file'.sections[a].section_number = save_file'.sections[b].section_number
            => a = b
     /\ \A k \in DOMAIN requested' : requested'[k] \notin processed_sections'
     /\ save_file' # save_file =>
          /\ save_file'.exists
          /\ IsPrefix(save_file.sections, save_file'.sections)
          /\ Len(save_file'.sections) = Len(save_file.sections) + 1]_vars

====
